---- MODULE Spec2Model ----
(***************************************************************************)
(* AirCanvas perception-to-canvas pipeline: the compositing canvas         *)
(* (drawing/canvas_engine.py), the shape state machine                     *)
(* (drawing/shape_engine.py), the gesture debouncer                        *)
(* (hand_tracking/gesture_engine.py), the detection worker                 *)
(* (performance/thread_manager.py) and the orchestrator                    *)
(* (core/app_controller.py, core/state_manager.py).                        *)
(*                                                                         *)
(* Every object is a record held in one variable; every method is an       *)
(* operator from the record (and the call's arguments) to the record after *)
(* the call, so that a handler that calls several methods is the           *)
(* composition of their operators.                                         *)
(***************************************************************************)
EXTENDS Integers, Sequences, FiniteSets, TLC

VARIABLES
    cv,      \* CanvasEngine: canvas, bbox, bbox_stale, undo, redo, bg_mode
    out,     \* the pixels of the ink layer the last blend() composited
    scn,     \* the caller of the canvas: its phase, its counters, what it recorded
    sh,      \* ShapeEngine: state, active_shape, anchor, current, _hold_start,
             \* _anchor_cand, _ema_tip
    fin,     \* the finalize() call just made, if one was: the drag before it,
             \* what it returned, the engine after it
    now,     \* time.time(), in milliseconds
    gs,      \* HandGestureState of the primary hand: raw_gesture,
             \* stable_gesture, _last_change, _palm_start, _clear_fired
    deb,     \* what an observer of the raw gestures has seen: the current run
             \* of equal raw gestures, the changes of stable_gesture
    det,     \* DetectionThread: _frame, _result, _fl, _rl, _running, _event, the
             \* line each thread is at and the worker's locals
    app,     \* AppController with its AppState, canvas, shape engine, gesture
             \* state, brush and toolbar, its picker threads, and what its
             \* last step printed and called
    ast,     \* an AppState under set_drawing_state calls: drawing_state,
             \* last_state_reason, last_state_ts, and the call just made
    cls,     \* the _classify call just made, if one was: the landmarks it
             \* was given and what it returned
    pal,     \* what an observer of the palm hold has seen: the clear flag of
             \* the frame just made, the flags set in the current run of
             \* stable OPEN_PALM
    br,      \* an AdvancedBrush under set_thickness and adjust calls, and the
             \* call just made
    upd,     \* the update() call just made on the gesture engine: its hands,
             \* its result, the state of the primary hand before it
    mbx      \* what an observer of the mailboxes has seen: the number of frames
             \* submitted, and of which submission the frame, the worker's
             \* frame, the result and the last read are

vars == <<cv, out, scn, sh, fin, now, gs, deb, det, app, ast, cls, pal, br, upd, mbx>>

\* What the callers of the canvas alone leave unchanged.
notCanvas == <<sh, fin, now, gs, deb, det, app, ast, cls, pal, br, upd, mbx>>

\* What the callers of the shape engine alone leave unchanged.
notShape == <<cv, out, scn, gs, deb, det, app, ast, cls, pal, br, upd, mbx>>

\* What the callers of the gesture engine alone leave unchanged.
notGesture == <<cv, out, scn, sh, fin, det, app, ast, cls, pal, br, upd, mbx>>

\* What a caller of GestureEngine.update leaves unchanged, but for the clock.
notUpdate == <<cv, out, scn, sh, fin, deb, det, app, ast, cls, pal, br, mbx>>

\* What the detection thread and its caller leave unchanged.
notDetection == <<cv, out, scn, sh, fin, now, gs, deb, app, ast, cls, pal, br, upd, mbx>>

\* What the detection thread, its caller and their observer leave unchanged.
notMailbox == <<cv, out, scn, sh, fin, now, gs, deb, app, ast, cls, pal, br, upd>>

\* What the frame loop and its picker threads leave unchanged, but for the clock.
notApp == <<cv, out, scn, sh, fin, gs, deb, det, ast, cls, pal, br, upd, mbx>>

\* What the callers of the classifier alone leave unchanged.
notClassify == <<cv, out, scn, sh, fin, now, gs, deb, det, app, ast, pal, br, upd, mbx>>

\* What the frames of the gesture engine alone leave unchanged.
notPalm == <<cv, out, scn, sh, fin, deb, det, app, ast, cls, br, upd, mbx>>

\* What the callers of an AppState alone leave unchanged, but for the clock.
notState == <<cv, out, scn, sh, fin, gs, deb, det, app, cls, pal, br, upd, mbx>>

\* What the callers of a brush alone leave unchanged.
notBrush == <<cv, out, scn, sh, fin, now, gs, deb, det, app, ast, cls, pal, upd, mbx>>

\* ------------------------------------------------------------------ helpers

Min(a, b) == IF a <= b THEN a ELSE b
Max(a, b) == IF a >= b THEN a ELSE b
Abs(a) == IF a >= 0 THEN a ELSE -a

\* int(x) of Python on the rational n/d, d > 0: truncation towards zero.
Trunc(n, d) == IF n >= 0 THEN n \div d ELSE -((-n) \div d)

\* floor(sqrt(n)) for n >= 0.
ISqrt(n) == CHOOSE r \in 0..n : r * r <= n /\ (r + 1) * (r + 1) > n

\* Python's None; where a field holds None or a number, string or record x,
\* the model holds None or <<x>>.
None == <<>>

\* ------------------------------------------------------------------ bounds

\* The canvas is constructed as CanvasEngine(CanvasW, CanvasH); the program
\* passes DISPLAY_WIDTH x DISPLAY_HEIGHT (1280 x 720, utils/config.py:18-19).
CanvasW == 8
CanvasH == 8

\* utils/config.py:68 sets 40; the model keeps the stack discipline and scales
\* the depth so that an overflowing stack is reached.
MAX_UNDO_STEPS == 3

Pixels == (0..(CanvasW - 1)) \X (0..(CanvasH - 1))

\* Ink colours: 0 is a pixel with alpha 0, c >= 1 a pixel of colour c, alpha 255.
Colors == {1, 2}

\* ---------------------------------------------- OpenCV raster footprints

\* The pixels cv2 touches are OpenCV's, not this repository's; they are modelled
\* by the geometry of the primitive: the pixels whose centre lies within half
\* a pixel of the ideal curve, widened by half the thickness.

Cheb(p, q) == Max(Abs(p[1] - q[1]), Abs(p[2] - q[2]))

\* Pixels of the plane on the thin segment a-b.
SegCore(a, b) ==
    LET dx == b[1] - a[1]
        dy == b[2] - a[2]
        l2 == dx * dx + dy * dy
    IN  { q \in (Min(a[1], b[1])..Max(a[1], b[1])) \X (Min(a[2], b[2])..Max(a[2], b[2])) :
            LET cr == dx * (q[2] - a[2]) - dy * (q[1] - a[1])
            IN  4 * cr * cr <= l2 }

\* The canvas pixels a pen of the given thickness touches when it follows core.
Stroke(core, thickness) ==
    LET r == Max(0, thickness) \div 2
    IN  { p \in Pixels : \E q \in core : Cheb(p, q) <= r }

\* Pixels of the plane within the circle of centre c and radius r (disc), and
\* those on it (ring).
Disc(c, r) ==
    { q \in ((c[1] - r - 1)..(c[1] + r + 1)) \X ((c[2] - r - 1)..(c[2] + r + 1)) :
        4 * ((q[1] - c[1]) * (q[1] - c[1]) + (q[2] - c[2]) * (q[2] - c[2]))
            <= (2 * r + 1) * (2 * r + 1) }

Ring(c, r) ==
    { q \in Disc(c, r) :
        4 * ((q[1] - c[1]) * (q[1] - c[1]) + (q[2] - c[2]) * (q[2] - c[2]))
            >= (2 * r - 1) * (2 * r - 1) }

\* Pixels of the plane in the axis-aligned rectangle, and those on its border.
RectFill(x1, y1, x2, y2) == (x1..x2) \X (y1..y2)

RectCore(x1, y1, x2, y2) ==
    { q \in RectFill(x1, y1, x2, y2) :
        q[1] = x1 \/ q[1] = x2 \/ q[2] = y1 \/ q[2] = y2 }

\* Pixels of the plane in the axis-aligned ellipse of centre c and half-axes
\* (ax, ay), and those of them with a neighbour outside.
InEllipse(q, c, ax, ay) ==
    (q[1] - c[1]) * (q[1] - c[1]) * ay * ay + (q[2] - c[2]) * (q[2] - c[2]) * ax * ax
        <= ax * ax * ay * ay

EllipseFill(c, ax, ay) ==
    { q \in ((c[1] - ax)..(c[1] + ax)) \X ((c[2] - ay)..(c[2] + ay)) : InEllipse(q, c, ax, ay) }

EllipseCore(c, ax, ay) ==
    { q \in EllipseFill(c, ax, ay) :
        \/ ~InEllipse(<<q[1] - 1, q[2]>>, c, ax, ay)
        \/ ~InEllipse(<<q[1] + 1, q[2]>>, c, ax, ay)
        \/ ~InEllipse(<<q[1], q[2] - 1>>, c, ax, ay)
        \/ ~InEllipse(<<q[1], q[2] + 1>>, c, ax, ay) }

\* The closed polyline through pts (a sequence of points).
PolyCore(pts) ==
    UNION { SegCore(pts[i], pts[(i % Len(pts)) + 1]) : i \in 1..Len(pts) }

\* fillPoly of a polygon every vertical line meets in one interval (the
\* triangle and the heart are such): the pixels between two outline pixels of
\* their column.
PolyFill(pts) ==
    LET core == PolyCore(pts)
    IN  { p \in Pixels :
            /\ \E q \in core : q[1] = p[1] /\ q[2] <= p[2]
            /\ \E q \in core : q[1] = p[1] /\ q[2] >= p[2] }

\* ------------------------------------------------------------ CanvasEngine

\* _draw_heart's curve at deg = 0, 3, .., 360, in millionths:
\* <<0.85 sin^3 t, 0.75 (0.8125 cos t - 0.3125 cos 2t - 0.125 cos 3t - 0.0625 cos 4t)>>.
HeartCurve ==
    <<  <<0, 234375>>, <<122, 237002>>, <<971, 244799>>, <<3254, 257514>>,
    <<7639, 274736>>, <<14737, 295908>>, <<25082, 320347>>, <<39121, 347265>>,
    <<57195, 375794>>, <<79535, 405014>>, <<106250, 433984>>, <<137324, 461767>>,
    <<172614, 487462>>, <<211853, 510228>>, <<254655, 529311>>, <<300520, 544059>>,
    <<348850, 553946>>, <<398958, 558576>>, <<450082, 557692>>, <<501410, 551180>>,
    <<552091, 539062>>, <<601259, 521494>>, <<648051, 498744>>, <<691631, 471187>>,
    <<731203, 439281>>, <<766038, 403546>>, <<795485, 364548>>, <<818990, 322870>>,
    <<836107, 279098>>, <<846510, 233798>>, <<850000, 187500>>, <<846510, 140682>>,
    <<836107, 93764>>, <<818990, 47092>>, <<795485, 946>>, <<766038, -44472>>,
    <<731203, -89024>>, <<691631, -132638>>, <<648051, -175289>>, <<601259, -216999>>,
    <<552091, -257812>>, <<501410, -297791>>, <<450082, -336995>>, <<398958, -375472>>,
    <<348850, -413247>>, <<300520, -450309>>, <<254655, -486607>>, <<211853, -522042>>,
    <<172614, -556468>>, <<137324, -589694>>, <<106250, -621484>>, <<79535, -651568>>,
    <<57195, -679649>>, <<39121, -705413>>, <<25082, -728544>>, <<14737, -748732>>,
    <<7639, -765691>>, <<3254, -779167>>, <<971, -788951>>, <<122, -794886>>,
    <<0, -796875>>, <<-122, -794886>>, <<-971, -788951>>, <<-3254, -779167>>,
    <<-7639, -765691>>, <<-14737, -748732>>, <<-25082, -728544>>, <<-39121, -705413>>,
    <<-57195, -679649>>, <<-79535, -651568>>, <<-106250, -621484>>, <<-137324, -589694>>,
    <<-172614, -556468>>, <<-211853, -522042>>, <<-254655, -486607>>, <<-300520, -450309>>,
    <<-348850, -413247>>, <<-398958, -375472>>, <<-450082, -336995>>, <<-501410, -297791>>,
    <<-552091, -257813>>, <<-601259, -216999>>, <<-648051, -175289>>, <<-691631, -132638>>,
    <<-731203, -89024>>, <<-766038, -44472>>, <<-795485, 946>>, <<-818990, 47092>>,
    <<-836107, 93764>>, <<-846510, 140682>>, <<-850000, 187500>>, <<-846510, 233798>>,
    <<-836107, 279098>>, <<-818990, 322870>>, <<-795485, 364548>>, <<-766038, 403546>>,
    <<-731203, 439281>>, <<-691631, 471187>>, <<-648051, 498744>>, <<-601259, 521494>>,
    <<-552091, 539062>>, <<-501410, 551180>>, <<-450082, 557692>>, <<-398958, 558576>>,
    <<-348850, 553946>>, <<-300520, 544059>>, <<-254655, 529311>>, <<-211853, 510228>>,
    <<-172614, 487462>>, <<-137324, 461767>>, <<-106250, 433984>>, <<-79535, 405014>>,
    <<-57195, 375794>>, <<-39121, 347265>>, <<-25082, 320347>>, <<-14737, 295908>>,
    <<-7639, 274736>>, <<-3254, 257514>>, <<-971, 244799>>, <<-122, 237002>>,
    <<0, 234375>> >>

HeartScale == 1000000

\* _draw_heart's vertex list: x = int(cx + size a), y = int(cy - size b).
HeartPts(cx, cy, size) ==
    [ k \in 1..Len(HeartCurve) |->
        << Trunc(cx * HeartScale + size * HeartCurve[k][1], HeartScale),
           Trunc(cy * HeartScale - size * HeartCurve[k][2], HeartScale) >> ]

\* The raster is the sequence of its pixels, row after row.
Idx(p) == p[2] * CanvasW + p[1] + 1
Pix(i) == << (i - 1) % CanvasW, (i - 1) \div CanvasW >>

\* _blank
Blank == [i \in 1..(CanvasW * CanvasH) |-> 0]

\* CanvasEngine.__init__
CanvasInit ==
    [ canvas |-> Blank, bbox |-> None, bbox_stale |-> FALSE,
      undo |-> <<>>, redo |-> <<>>, bg_mode |-> "none" ]

\* The raster with the pixels of foot set to v.
Paint(canvas, foot, v) ==
    [i \in 1..(CanvasW * CanvasH) |-> IF Pix(i) \in foot THEN v ELSE canvas[i]]

Ink(canvas) == { p \in Pixels : canvas[Idx(p)] /= 0 }

Clamp(lo, hi, v) == Max(lo, Min(hi, v))

\* _mark_bbox
_mark_bbox(c, x1, y1, x2, y2, stale) ==
    IF stale THEN [c EXCEPT !.bbox_stale = TRUE]
    ELSE
        LET a1 == Clamp(0, CanvasW, x1)
            b1 == Clamp(0, CanvasH, y1)
            a2 == Clamp(0, CanvasW, x2)
            b2 == Clamp(0, CanvasH, y2)
        IN  IF a2 <= a1 \/ b2 <= b1 THEN c
            ELSE [c EXCEPT
                    !.bbox = IF c.bbox = None THEN <<a1, b1, a2, b2>>
                             ELSE << Min(c.bbox[1], a1), Min(c.bbox[2], b1),
                                     Max(c.bbox[3], a2), Max(c.bbox[4], b2) >>,
                    !.bbox_stale = FALSE]

\* cv2.boundingRect(cv2.findNonZero(alpha)) as (x, y, x + w, y + h)
BoundingRect(ink) ==
    LET xs == { p[1] : p \in ink }
        ys == { p[2] : p \in ink }
    IN  << CHOOSE x \in xs : \A z \in xs : x <= z,
           CHOOSE y \in ys : \A z \in ys : y <= z,
           (CHOOSE x \in xs : \A z \in xs : x >= z) + 1,
           (CHOOSE y \in ys : \A z \in ys : y >= z) + 1 >>

\* _recompute_bbox
_recompute_bbox(c) ==
    [c EXCEPT !.bbox = IF Ink(c.canvas) = {} THEN None ELSE BoundingRect(Ink(c.canvas)),
              !.bbox_stale = FALSE]

\* draw_line's and draw_shape's pad.
Pad(thickness) == Max(2, thickness + 2)

\* draw_line; p1 may be None.
draw_line(c, p1, p2, color, thickness, eraser) ==
    LET start == IF p1 /= None THEN p1 ELSE p2
        v     == IF eraser THEN 0 ELSE color
        c1    == [c EXCEPT !.canvas = Paint(c.canvas, Stroke(SegCore(start, p2), thickness), v)]
        pad   == Pad(thickness)
    IN  _mark_bbox(c1, Min(start[1], p2[1]) - pad, Min(start[2], p2[2]) - pad,
                       Max(start[1], p2[1]) + pad, Max(start[2], p2[2]) + pad, eraser)

\* draw_dot
draw_dot(c, pt, color, thickness) ==
    LET rad == Max(1, thickness \div 2)
        c1  == [c EXCEPT !.canvas = Paint(c.canvas, Disc(pt, rad) \cap Pixels, color)]
        r   == rad + 2
    IN  _mark_bbox(c1, pt[1] - r, pt[2] - r, pt[1] + r, pt[2] + r, FALSE)

SHAPES == {"rectangle", "circle", "ellipse", "line", "triangle", "heart"}

\* The pixels draw_shape's cv2 call touches.
ShapeFoot(shape, p1, p2, thickness, filled) ==
    LET x1 == Min(p1[1], p2[1])
        y1 == Min(p1[2], p2[2])
        x2 == Max(p1[1], p2[1])
        y2 == Max(p1[2], p2[2])
        cx == (x1 + x2) \div 2
        cy == (y1 + y2) \div 2
    IN  CASE shape = "rectangle" ->
                IF filled THEN RectFill(x1, y1, x2, y2) \cap Pixels
                ELSE Stroke(RectCore(x1, y1, x2, y2), thickness)
          [] shape = "circle" ->
                LET r == Max(1, ISqrt(((x2 - x1) * (x2 - x1) + (y2 - y1) * (y2 - y1)) \div 4))
                IN  IF filled THEN Disc(<<cx, cy>>, r) \cap Pixels
                    ELSE Stroke(Ring(<<cx, cy>>, r), thickness)
          [] shape = "ellipse" ->
                LET ax == Max(1, (x2 - x1) \div 2)
                    ay == Max(1, (y2 - y1) \div 2)
                IN  IF filled THEN EllipseFill(<<cx, cy>>, ax, ay) \cap Pixels
                    ELSE Stroke(EllipseCore(<<cx, cy>>, ax, ay), thickness)
          [] shape = "line" -> Stroke(SegCore(p1, p2), thickness)
          [] shape = "triangle" ->
                LET pts == << <<(x1 + x2) \div 2, y1>>, <<x1, y2>>, <<x2, y2>> >>
                IN  IF filled THEN PolyFill(pts) ELSE Stroke(PolyCore(pts), thickness)
          [] shape = "heart" ->
                LET pts == HeartPts(cx, cy, Max(x2 - x1, y2 - y1) \div 2)
                IN  IF filled THEN PolyFill(pts) ELSE Stroke(PolyCore(pts), thickness)
          [] OTHER -> {}

\* draw_shape
draw_shape(c, shape, p1, p2, color, thickness, filled) ==
    LET x1  == Min(p1[1], p2[1])
        y1  == Min(p1[2], p2[2])
        x2  == Max(p1[1], p2[1])
        y2  == Max(p1[2], p2[2])
        c1  == [c EXCEPT !.canvas = Paint(c.canvas, ShapeFoot(shape, p1, p2, thickness, filled), color)]
        pad == Pad(thickness)
    IN  _mark_bbox(c1, x1 - pad, y1 - pad, x2 + pad, y2 + pad, FALSE)

\* A push that, at capacity, discards the newest snapshot instead of the oldest.
push_undo_drop_newest(c) ==
    LET kept == IF Len(c.undo) >= MAX_UNDO_STEPS
                THEN SubSeq(c.undo, 1, Len(c.undo) - 1) ELSE c.undo
    IN  [c EXCEPT !.undo = Append(kept, c.canvas), !.redo = <<>>]

\* push_undo
push_undo(c) ==
    LET kept == IF Len(c.undo) >= MAX_UNDO_STEPS THEN Tail(c.undo) ELSE c.undo
    IN  [c EXCEPT !.undo = Append(kept, c.canvas), !.redo = <<>>]

Last(s) == s[Len(s)]
Front(s) == SubSeq(s, 1, Len(s) - 1)

\* undo: the canvas after the call; the call returns undo_ok(c).
undo_ok(c) == c.undo /= <<>>

\* An undo that does not keep the live raster for redo.
undo_dropping_raster(c) ==
    IF c.undo = <<>> THEN c
    ELSE [c EXCEPT !.canvas = Last(c.undo),
                   !.undo = Front(c.undo),
                   !.bbox_stale = TRUE]

undo(c) ==
    IF c.undo = <<>> THEN c
    ELSE [c EXCEPT !.redo = Append(c.redo, c.canvas),
                   !.canvas = Last(c.undo),
                   !.undo = Front(c.undo),
                   !.bbox_stale = TRUE]

\* redo: the canvas after the call; the call returns redo_ok(c).
redo_ok(c) == c.redo /= <<>>

\* A redo that replays the state undone first instead of the one undone last.
redo_oldest(c) ==
    IF c.redo = <<>> THEN c
    ELSE [c EXCEPT !.undo = Append(c.undo, c.canvas),
                   !.canvas = Head(c.redo),
                   !.redo = Tail(c.redo),
                   !.bbox_stale = TRUE]

redo(c) ==
    IF c.redo = <<>> THEN c
    ELSE [c EXCEPT !.undo = Append(c.undo, c.canvas),
                   !.canvas = Last(c.redo),
                   !.redo = Front(c.redo),
                   !.bbox_stale = TRUE]

\* A clear without the undo snapshot.
clear_without_push(c) ==
    [c EXCEPT !.canvas = Blank, !.bbox = None, !.bbox_stale = FALSE]

\* clear
clear(c) ==
    [push_undo(c) EXCEPT !.canvas = Blank, !.bbox = None, !.bbox_stale = FALSE]

\* set_bg_mode
set_bg_mode(c, mode) == [c EXCEPT !.bg_mode = mode]

\* The ink pixels inside a box (x1, y1, x2, y2), upper bounds excluded as in
\* c[y1:y2, x1:x2].
InBox(p, b) == b[1] <= p[1] /\ p[1] < b[3] /\ b[2] <= p[2] /\ p[2] < b[4]

InkIn(canvas, b) == { p \in Ink(canvas) : InBox(p, b) }

\* blend on a camera frame of the canvas's size (same) or of another size:
\* the canvas after the call (its cache may be refreshed).
blend(c, same) ==
    IF ~same THEN c
    ELSE
        LET c1 == IF c.bbox_stale THEN _recompute_bbox(c) ELSE c
        IN  IF c1.bbox = None THEN c1
            ELSE IF InkIn(c1.canvas, c1.bbox) = {}
                 THEN _recompute_bbox([c1 EXCEPT !.bbox_stale = TRUE])
                 ELSE c1

\* blend: the ink pixels composited onto the returned frame.
blend_out(c, same) ==
    IF ~same THEN Ink(c.canvas)
    ELSE
        LET c1 == blend(c, same)
        IN  IF c1.bbox = None THEN {} ELSE InkIn(c1.canvas, c1.bbox)

\* A blend_with_preview that draws the preview into the raster.
blend_with_preview_committing(c, same, shape, p1, p2, color, thickness) ==
    draw_shape(blend(c, same), shape, p1, p2, color, thickness, FALSE)

\* blend_with_preview: the canvas after the call. The preview and the dashed
\* box are drawn on the frame blend() returned.
blend_with_preview(c, same, shape, p1, p2, color, thickness) ==
    blend(c, same)

\* An image handed to blit_image: iw x ih pixels of ch channels; px gives each
\* pixel's colour, 0 for alpha 0 (4 channels only).
Images ==
    { [iw |-> 2, ih |-> 2, ch |-> 3, px |-> [q \in (0..1) \X (0..1) |-> 1]],
      [iw |-> 3, ih |-> 2, ch |-> 4,
       px |-> [q \in (0..2) \X (0..1) |-> IF q[1] = 1 THEN 0 ELSE 2]] }

\* numpy's a[lo:hi] on an axis of length n: the indexes selected.
SliceIdx(lo, hi, n) ==
    LET a == IF lo < 0 THEN Max(0, lo + n) ELSE Min(lo, n)
        b == IF hi < 0 THEN Max(0, hi + n) ELSE Min(hi, n)
    IN  [first |-> a, len |-> Max(0, b - a)]

\* blit_image raises (numpy cannot broadcast the patch onto the selected
\* region) exactly when a selected extent differs from the patch's and the
\* patch's is not 1.
blit_geom(img, x, y) ==
    LET x2 == Min(x + img.iw, CanvasW)
        y2 == Min(y + img.ih, CanvasH)
    IN  [x2 |-> x2, y2 |-> y2, iw |-> x2 - x, ih |-> y2 - y,
         pw |-> Min(img.iw, x2 - x), ph |-> Min(img.ih, y2 - y),
         cols |-> SliceIdx(x, x2, CanvasW), rows |-> SliceIdx(y, y2, CanvasH)]

blit_raises(img, x, y) ==
    LET g == blit_geom(img, x, y)
        Bad(region, patch) == region /= patch /\ patch /= 1
    IN  /\ g.iw > 0 /\ g.ih > 0
        /\ Bad(g.cols.len, g.pw) \/ Bad(g.rows.len, g.ph)

\* blit_image: the canvas after the call (unchanged when it raises).
blit_image(c, img, x, y) ==
    LET g == blit_geom(img, x, y)
    IN  IF g.iw <= 0 \/ g.ih <= 0 \/ blit_raises(img, x, y) THEN c
        ELSE
            LET Src(p) ==
                    \* the patch pixel numpy pairs with region pixel p
                    img.px[<< IF g.pw = 1 THEN 0 ELSE p[1] - g.cols.first,
                              IF g.ph = 1 THEN 0 ELSE p[2] - g.rows.first >>]
                region == { p \in Pixels :
                              /\ g.cols.first <= p[1] /\ p[1] < g.cols.first + g.cols.len
                              /\ g.rows.first <= p[2] /\ p[2] < g.rows.first + g.rows.len }
                c1 == [c EXCEPT !.canvas =
                         [i \in 1..(CanvasW * CanvasH) |->
                            IF Pix(i) \in region /\ Src(Pix(i)) /= 0
                            THEN Src(Pix(i)) ELSE c.canvas[i]]]
            IN  _mark_bbox(c1, x, y, g.x2, g.y2, FALSE)

\* ------------------------------------------------------------ ShapeEngine

\* config.py, with seconds as milliseconds.
SHAPE_HOLD_SECONDS == 320
SHAPE_MIN_MOVE_PX == 3
SHAPE_MIN_SIZE_PX == 10
SHAPE_STILL_RADIUS_PX == 20

\* SHAPE_EMA_ALPHA = 0.35 as a fraction.
SHAPE_EMA_ALPHA == <<7, 20>>

\* _ema_tip holds rationals: the pair of numerators over EmaScale. An update
\* divides by 20, so MaxEma updates away from an integer position are exact; the callers
\* make no update that is not (EmaExact).
MaxEma == 1
EmaScale == SHAPE_EMA_ALPHA[2] ^ MaxEma

IDLE == "idle"
ANCHORING == "anchoring"
DRAGGING == "dragging"

ShapeInit ==
    [ state |-> IDLE, active_shape |-> "rectangle", anchor |-> None,
      current |-> None, hold_start |-> None, anchor_cand |-> None,
      ema_tip |-> None ]

\* int(round(e / EmaScale)) for e >= 0: Python rounds halves to the even side.
Round(e) ==
    LET q == e \div EmaScale
        r == e % EmaScale
    IN  IF 2 * r < EmaScale THEN q
        ELSE IF 2 * r > EmaScale THEN q + 1
        ELSE IF q % 2 = 0 THEN q ELSE q + 1

\* ex + a * (x - ex) on the numerators.
Ema(e, x) == e + SHAPE_EMA_ALPHA[1] * ((x * EmaScale - e) \div SHAPE_EMA_ALPHA[2])

\* The update of _ema_tip is exact in the model.
EmaExact(s, tip) ==
    tip /= None /\ s.ema_tip /= None =>
        \A i \in 1..2 : (tip[i] * EmaScale - s.ema_tip[i]) % SHAPE_EMA_ALPHA[2] = 0

\* _smooth_tip: the engine after the call.
_smooth_tip(s, fingertip) ==
    IF fingertip = None THEN [s EXCEPT !.ema_tip = None]
    ELSE IF s.ema_tip = None
         THEN [s EXCEPT !.ema_tip = <<fingertip[1] * EmaScale, fingertip[2] * EmaScale>>]
         ELSE [s EXCEPT !.ema_tip = <<Ema(s.ema_tip[1], fingertip[1]),
                                      Ema(s.ema_tip[2], fingertip[2])>>]

\* _smooth_tip: what the call returns, from the engine after it.
StableTip(s) ==
    IF s.ema_tip = None THEN None ELSE <<Round(s.ema_tip[1]), Round(s.ema_tip[2])>>

\* _dist(p1, p2) >= d, for an integer d >= 0.
DistAtLeast(p1, p2, d) ==
    (p1[1] - p2[1]) * (p1[1] - p2[1]) + (p1[2] - p2[2]) * (p1[2] - p2[2]) >= d * d

_partial_reset(s) ==
    [s EXCEPT !.state = IDLE, !.hold_start = None, !.anchor_cand = None,
              !.ema_tip = None]

\* A reset that leaves anchor and current as they are.
_full_reset_keeping_points(s) ==
    [s EXCEPT !.state = IDLE, !.hold_start = None, !.anchor_cand = None,
              !.ema_tip = None]

_full_reset(s) ==
    [s EXCEPT !.state = IDLE, !.anchor = None, !.current = None,
              !.hold_start = None, !.anchor_cand = None, !.ema_tip = None]

\* An update that locks the anchor once the hold time has passed, wherever
\* the point is.
update_locking_on_the_move(s, fingertip, drawing_active, t) ==
    LET s1 == _smooth_tip(s, fingertip)
        stable_tip == StableTip(s1)
    IN  CASE s1.state = IDLE ->
               IF ~drawing_active \/ stable_tip = None THEN s1
               ELSE [s1 EXCEPT !.hold_start = t, !.anchor_cand = stable_tip,
                               !.state = ANCHORING]
          [] s1.state = ANCHORING ->
               IF ~drawing_active \/ stable_tip = None THEN _partial_reset(s1)
               ELSE IF t - s1.hold_start >= SHAPE_HOLD_SECONDS
               THEN [s1 EXCEPT !.anchor = s1.anchor_cand, !.current = s1.anchor_cand,
                               !.state = DRAGGING]
               ELSE IF \/ Abs(stable_tip[1] - s1.anchor_cand[1]) > SHAPE_STILL_RADIUS_PX
                       \/ Abs(stable_tip[2] - s1.anchor_cand[2]) > SHAPE_STILL_RADIUS_PX
               THEN [s1 EXCEPT !.hold_start = t, !.anchor_cand = stable_tip]
               ELSE s1
          [] s1.state = DRAGGING ->
               IF drawing_active /\ stable_tip /= None
               THEN IF s1.current = None THEN [s1 EXCEPT !.current = stable_tip]
                    ELSE IF DistAtLeast(s1.current, stable_tip, SHAPE_MIN_MOVE_PX)
                    THEN [s1 EXCEPT !.current = stable_tip]
                    ELSE s1
               ELSE s1

\* An update that ends a drag when the drawing signal is lost.
update_ending_lost_drag(s, fingertip, drawing_active, t) ==
    LET s1 == _smooth_tip(s, fingertip)
        stable_tip == StableTip(s1)
    IN  CASE s1.state = IDLE ->
               IF ~drawing_active \/ stable_tip = None THEN s1
               ELSE [s1 EXCEPT !.hold_start = t, !.anchor_cand = stable_tip,
                               !.state = ANCHORING]
          [] s1.state = ANCHORING ->
               IF ~drawing_active \/ stable_tip = None THEN _partial_reset(s1)
               ELSE IF \/ Abs(stable_tip[1] - s1.anchor_cand[1]) > SHAPE_STILL_RADIUS_PX
                       \/ Abs(stable_tip[2] - s1.anchor_cand[2]) > SHAPE_STILL_RADIUS_PX
               THEN [s1 EXCEPT !.hold_start = t, !.anchor_cand = stable_tip]
               ELSE IF t - s1.hold_start >= SHAPE_HOLD_SECONDS
               THEN [s1 EXCEPT !.anchor = s1.anchor_cand, !.current = s1.anchor_cand,
                               !.state = DRAGGING]
               ELSE s1
          [] s1.state = DRAGGING ->
               IF drawing_active /\ stable_tip /= None
               THEN IF s1.current = None THEN [s1 EXCEPT !.current = stable_tip]
                    ELSE IF DistAtLeast(s1.current, stable_tip, SHAPE_MIN_MOVE_PX)
                    THEN [s1 EXCEPT !.current = stable_tip]
                    ELSE s1
               ELSE _partial_reset(s1)

\* update(fingertip, drawing_active) at time t.
update(s, fingertip, drawing_active, t) ==
    LET s1 == _smooth_tip(s, fingertip)
        stable_tip == StableTip(s1)
    IN  CASE s1.state = IDLE ->
               IF ~drawing_active \/ stable_tip = None THEN s1
               ELSE [s1 EXCEPT !.hold_start = t, !.anchor_cand = stable_tip,
                               !.state = ANCHORING]
          [] s1.state = ANCHORING ->
               IF ~drawing_active \/ stable_tip = None THEN _partial_reset(s1)
               ELSE IF \/ Abs(stable_tip[1] - s1.anchor_cand[1]) > SHAPE_STILL_RADIUS_PX
                       \/ Abs(stable_tip[2] - s1.anchor_cand[2]) > SHAPE_STILL_RADIUS_PX
               THEN [s1 EXCEPT !.hold_start = t, !.anchor_cand = stable_tip]
               ELSE IF t - s1.hold_start >= SHAPE_HOLD_SECONDS
               THEN [s1 EXCEPT !.anchor = s1.anchor_cand, !.current = s1.anchor_cand,
                               !.state = DRAGGING]
               ELSE s1
          [] s1.state = DRAGGING ->
               IF drawing_active /\ stable_tip /= None
               THEN IF s1.current = None THEN [s1 EXCEPT !.current = stable_tip]
                    ELSE IF DistAtLeast(s1.current, stable_tip, SHAPE_MIN_MOVE_PX)
                    THEN [s1 EXCEPT !.current = stable_tip]
                    ELSE s1
               ELSE s1

is_dragging(s) == s.state = DRAGGING

has_preview(s) == is_dragging(s) /\ s.anchor /= None /\ s.current /= None

\* A validity test that uses the Euclidean distance for every shape.
_is_valid_shape_by_distance(s, p1, p2) ==
    DistAtLeast(p1, p2, SHAPE_MIN_SIZE_PX)

_is_valid_shape(s, p1, p2) ==
    IF s.active_shape = "line"
    THEN DistAtLeast(p1, p2, SHAPE_MIN_SIZE_PX)
    ELSE Max(Abs(p1[1] - p2[1]), Abs(p1[2] - p2[2])) >= SHAPE_MIN_SIZE_PX

\* finalize: what the call returns.
finalize_ret(s) ==
    IF ~is_dragging(s) \/ s.anchor = None \/ s.current = None THEN None
    ELSE IF ~_is_valid_shape(s, s.anchor, s.current) THEN None
    ELSE <<s.active_shape, s.anchor, s.current>>

\* A finalize that resets the session in every state.
finalize_resetting_always(s) == _full_reset(s)

\* finalize: the engine after the call.
finalize(s) ==
    IF ~is_dragging(s) \/ s.anchor = None \/ s.current = None THEN s
    ELSE _full_reset(s)

cancel(s) == _full_reset(s)

set_shape(s, shape) ==
    IF shape \in SHAPES THEN _full_reset([s EXCEPT !.active_shape = shape]) ELSE s


\* ---------------------------------------------------------- GestureEngine

\* config.py, with seconds as milliseconds.
DEBOUNCE_DELAY == 100
CLEAR_HOLD_DURATION == 900

NONE == "NONE"
DRAWING == "DRAWING"
FIST == "FIST"
TWO == "TWO"
THREE == "THREE"
FOUR == "FOUR"
OPEN_PALM == "OPEN_PALM"
PINCH == "PINCH"
Gesture == {NONE, DRAWING, FIST, TWO, THREE, FOUR, OPEN_PALM, PINCH}

\* The colours of config.py, as the values the model's raster holds.
COL == [ GREEN |-> 1, RED |-> 2, BLUE |-> 3, BLACK |-> 4, YELLOW |-> 5,
         WHITE |-> 6, PURPLE |-> 7, ORANGE |-> 8 ]

\* KalmanPoint in fixed point: _x in hundredths of a pixel, _p, _q and _r in
\* millionths, the gain k in thousandths.
KALMAN_PROCESS_NOISE == 2000
KALMAN_MEASURE_NOISE == 6000

KalmanInit == [ x |-> 0, p |-> 1000000, init |-> FALSE ]

\* KalmanPoint.update(z), z in pixels: the filter after the call.
kalman_update(f, z) ==
    IF ~f.init THEN [f EXCEPT !.x = z * 100, !.init = TRUE]
    ELSE LET p1 == f.p + KALMAN_PROCESS_NOISE
             k == (p1 * 1000) \div (p1 + KALMAN_MEASURE_NOISE)
         IN  [f EXCEPT !.x = f.x + Trunc(k * (z * 100 - f.x), 1000),
                       !.p = ((1000 - k) * p1) \div 1000]

\* int() of what KalmanPoint.update returned, from the filter after the call.
kalman_int(f) == Trunc(f.x, 100)

\* A reset that leaves the filter initialised.
kalman_reset_keeping_init(f) == f

kalman_reset(f) == [f EXCEPT !.init = FALSE]

HandGestureStateInit ==
    [ kx |-> KalmanInit, ky |-> KalmanInit,
      raw_gesture |-> NONE, stable_gesture |-> NONE, last_change |-> 0,
      palm_start |-> None, clear_fired |-> FALSE,
      swipe_history |-> <<>>, last_swipe |-> 0, color |-> COL.GREEN,
      prev_pinch |-> None ]

\* A debounce with the same dwell for every gesture.
_debounce_with_one_dwell(st, raw, t) ==
    LET st1 == IF raw /= st.raw_gesture
               THEN [st EXCEPT !.raw_gesture = raw, !.last_change = t]
               ELSE st
    IN  IF t - st1.last_change >= DEBOUNCE_DELAY
           /\ st1.stable_gesture /= st1.raw_gesture
        THEN [st1 EXCEPT !.stable_gesture = st1.raw_gesture]
        ELSE st1

\* A debounce that does not restart the dwell when the raw gesture changes.
_debounce_without_restart(st, raw, t) ==
    LET st1 == [st EXCEPT !.raw_gesture = raw]
        delay == IF raw \in {DRAWING, FIST}
                 THEN (DEBOUNCE_DELAY * 6) \div 10 ELSE DEBOUNCE_DELAY
    IN  IF t - st1.last_change >= delay /\ st1.stable_gesture /= st1.raw_gesture
        THEN [st1 EXCEPT !.stable_gesture = st1.raw_gesture]
        ELSE st1

\* _debounce(st, raw) at time t; delay *= 0.6 is DEBOUNCE_DELAY * 6 / 10.
_debounce(st, raw, t) ==
    LET st1 == IF raw /= st.raw_gesture
               THEN [st EXCEPT !.raw_gesture = raw, !.last_change = t]
               ELSE st
        delay == IF raw \in {DRAWING, FIST}
                 THEN (DEBOUNCE_DELAY * 6) \div 10 ELSE DEBOUNCE_DELAY
    IN  IF t - st1.last_change >= delay /\ st1.stable_gesture /= st1.raw_gesture
        THEN [st1 EXCEPT !.stable_gesture = st1.raw_gesture]
        ELSE st1

\* _palm_timer at time t: what the call returns.
_palm_timer_ret(st, t) ==
    LET began == IF st.palm_start = None THEN t ELSE st.palm_start[1]
        fired == IF st.palm_start = None THEN FALSE ELSE st.clear_fired
    IN  ~fired /\ t - began >= CLEAR_HOLD_DURATION

\* A palm timer that does not note that it has fired.
_palm_timer_unlatched(st, t) ==
    IF st.palm_start = None
    THEN [st EXCEPT !.palm_start = <<t>>, !.clear_fired = FALSE]
    ELSE st

\* _palm_timer at time t: the state after the call.
_palm_timer(st, t) ==
    LET st1 == IF st.palm_start = None
               THEN [st EXCEPT !.palm_start = <<t>>, !.clear_fired = FALSE]
               ELSE st
    IN  IF _palm_timer_ret(st, t) THEN [st1 EXCEPT !.clear_fired = TRUE] ELSE st1

_reset_palm(st) == [st EXCEPT !.palm_start = None, !.clear_fired = FALSE]


\* config.py; distances between normalised landmarks in thousandths, the
\* swipe window in milliseconds, the velocity in pixels per second.
PINCH_THRESHOLD == 70
SWIPE_VELOCITY_THRESH == 380
SWIPE_WINDOW == 280
SWIPE_COOLDOWN == 550
SWIPE_MIN_POINTS == 4
SWIPE_MIN_DT == 50
PINCH_GAIN == 180

\* A detected hand (HandResult), as far as the program reads it: n, the
\* number of fingers _count finds extended; pd, the distance between thumb
\* tip and index tip; tip, the pixel of the index tip; z, the depth of the
\* index tip.

\* _is_pinch
_is_pinch(h) == h.pd < PINCH_THRESHOLD

\* A classifier that asks for a fist before it asks for a pinch.
_classify_fist_first(h) ==
    IF h.n = 0 THEN FIST
    ELSE IF _is_pinch(h) THEN PINCH
    ELSE CASE h.n = 1 -> DRAWING [] h.n = 2 -> TWO
           [] h.n = 3 -> THREE [] h.n = 4 -> FOUR [] h.n = 5 -> OPEN_PALM
           [] OTHER -> NONE

\* _classify
_classify(h) ==
    IF _is_pinch(h) THEN PINCH
    ELSE CASE h.n = 0 -> FIST [] h.n = 1 -> DRAWING [] h.n = 2 -> TWO
           [] h.n = 3 -> THREE [] h.n = 4 -> FOUR [] h.n = 5 -> OPEN_PALM
           [] OTHER -> NONE

\* The landmarks of a hand that the classifier reads, each <<x, y>> in
\* thousandths of the frame: norm_lm at WRIST, THUMB_IP, THUMB_TIP and at the
\* PIP and TIP of the four fingers.
DISPLAY_WIDTH == 1280
DISPLAY_HEIGHT == 720

\* pixel_lm of a landmark: (int(lm.x * orig_w), int(lm.y * orig_h)).
Pixel(p) == <<(p[1] * DISPLAY_WIDTH) \div 1000, (p[2] * DISPLAY_HEIGHT) \div 1000>>

\* _count: the thumb by the x of tip and IP on the side the wrist is not,
\* each finger by the pixel rows of TIP and PIP.
_count(lm) ==
    LET wx == lm.wrist[1]
        tip_x == lm.thumb_tip[1]
        ip_x == lm.thumb_ip[1]
        thumb == IF wx < ip_x THEN tip_x > ip_x ELSE tip_x < ip_x
        up(tip, pip) == IF Pixel(tip)[2] < Pixel(pip)[2] THEN 1 ELSE 0
    IN  (IF thumb THEN 1 ELSE 0)
        + up(lm.index_tip, lm.index_pip) + up(lm.middle_tip, lm.middle_pip)
        + up(lm.ring_tip, lm.ring_pip) + up(lm.pinky_tip, lm.pinky_pip)

\* The square of the distance of thumb tip and index tip.
PinchDist2(lm) ==
    LET dx == lm.thumb_tip[1] - lm.index_tip[1]
        dy == lm.thumb_tip[2] - lm.index_tip[2]
    IN  dx * dx + dy * dy

\* GESTURE_COLOR_MAP[_g_to_fc(g)], or None where the map has no entry.
GestureColor(g) ==
    CASE g = OPEN_PALM -> <<COL.GREEN>> [] g = FOUR -> <<COL.RED>>
      [] g = THREE -> <<COL.BLUE>> [] g = TWO -> <<COL.BLACK>>
      [] OTHER -> None

\* _pinch: what the call returns.
_pinch_ret(h, st) ==
    IF st.prev_pinch = None THEN 0
    ELSE IF h.pd < PINCH_THRESHOLD
         THEN Trunc((h.pd - st.prev_pinch[1]) * PINCH_GAIN, 1000)
         ELSE 0

\* _pinch: the state after the call.
_pinch(h, st) == [st EXCEPT !.prev_pinch = <<h.pd>>]

\* _swipe at time t: <<undo, redo>>; slide_prev is undo and slide_next is redo.
_swipe_ret(st, t) ==
    LET pts == SelectSeq(st.swipe_history, LAMBDA e : e[1] >= t - SWIPE_WINDOW)
        dt == pts[Len(pts)][1] - pts[1][1]
        dx == pts[Len(pts)][2] - pts[1][2]
    IN  IF t - st.last_swipe < SWIPE_COOLDOWN THEN <<FALSE, FALSE>>
        ELSE IF Len(pts) < SWIPE_MIN_POINTS THEN <<FALSE, FALSE>>
        ELSE IF dt < SWIPE_MIN_DT THEN <<FALSE, FALSE>>
        ELSE <<dx * 1000 < -(SWIPE_VELOCITY_THRESH * dt),
               dx * 1000 > SWIPE_VELOCITY_THRESH * dt>>

\* A _swipe that does not note when it fired.
_swipe_without_cooldown(st, t) == st

\* _swipe at time t: the state after the call.
_swipe(st, t) ==
    IF _swipe_ret(st, t)[1] \/ _swipe_ret(st, t)[2]
    THEN [st EXCEPT !.last_swipe = t] ELSE st

GestureResultInit ==
    [ gesture |-> NONE, color |-> COL.GREEN, fingertip |-> None,
      fingertip_raw |-> None, clear |-> FALSE, undo |-> FALSE, redo |-> FALSE,
      pinch_delta |-> 0, slide_next |-> FALSE, slide_prev |-> FALSE,
      two_hand_clear |-> FALSE, two_hand_pause |-> FALSE ]

\* Two-hand combos read off the first two hands of any list.
two_hand_combos_of_first_two(hands) ==
    LET two == Len(hands) >= 2
    IN  [GestureResultInit EXCEPT
           !.two_hand_clear = two /\ _classify(hands[1]) = OPEN_PALM
                                  /\ _classify(hands[2]) = OPEN_PALM,
           !.two_hand_pause = two /\ _classify(hands[1]) = FIST
                                  /\ _classify(hands[2]) = FIST]

\* The two-hand combos of update(hands): the GestureResult with its two
\* flags set.
two_hand_combos(hands) ==
    LET two == Len(hands) = 2
    IN  [GestureResultInit EXCEPT
           !.two_hand_clear = two /\ _classify(hands[1]) = OPEN_PALM
                                  /\ _classify(hands[2]) = OPEN_PALM,
           !.two_hand_pause = two /\ _classify(hands[1]) = FIST
                                  /\ _classify(hands[2]) = FIST]

\* An update that forgets the gesture of a hand it does not see.
gesture_update_forgetting(st, hands, t) ==
    LET r0 == two_hand_combos(hands)
    IN  IF hands = <<>>
        THEN [ st |-> [st EXCEPT !.kx = kalman_reset(st.kx), !.ky = kalman_reset(st.ky),
                                 !.prev_pinch = None, !.raw_gesture = NONE,
                                 !.stable_gesture = NONE],
               r |-> r0 ]
        ELSE
        LET h0 == hands[1]
            st1 == _debounce(st, _classify(h0), t)
            st2 == [st1 EXCEPT !.kx = kalman_update(st1.kx, h0.tip[1]),
                               !.ky = kalman_update(st1.ky, h0.tip[2])]
            tip == <<kalman_int(st2.kx), kalman_int(st2.ky)>>
            g == st2.stable_gesture
            st3 == IF GestureColor(g) /= None
                   THEN [st2 EXCEPT !.color = GestureColor(g)[1]] ELSE st2
            clr == g = OPEN_PALM /\ _palm_timer_ret(st3, t)
            st4 == IF g = OPEN_PALM THEN _palm_timer(st3, t) ELSE _reset_palm(st3)
            pdl == IF g = PINCH THEN _pinch_ret(h0, st4) ELSE 0
            st5 == IF g = PINCH THEN _pinch(h0, st4) ELSE [st4 EXCEPT !.prev_pinch = None]
            st6 == [st5 EXCEPT !.swipe_history =
                      SelectSeq(Append(st5.swipe_history, <<t, tip[1]>>),
                                LAMBDA e : e[1] >= t - SWIPE_WINDOW)]
            sw == _swipe_ret(st6, t)
        IN  [ st |-> _swipe(st6, t),
              r |-> [r0 EXCEPT !.gesture = g, !.fingertip = tip,
                               !.fingertip_raw = h0.tip, !.color = st3.color,
                               !.clear = clr, !.pinch_delta = pdl,
                               !.undo = sw[1], !.slide_prev = sw[1],
                               !.redo = sw[2], !.slide_next = sw[2]] ]

\* GestureEngine.update(hands) at time t: [st |-> the state of the primary
\* hand after the call, r |-> the GestureResult]. The deque of the swipe
\* history is kept to the entries inside the swipe window: older entries
\* are never read again.
gesture_update(st, hands, t) ==
    LET r0 == two_hand_combos(hands)
    IN  IF hands = <<>>
        THEN [ st |-> [st EXCEPT !.kx = kalman_reset(st.kx), !.ky = kalman_reset(st.ky),
                                 !.prev_pinch = None],
               r |-> r0 ]
        ELSE
        LET h0 == hands[1]
            st1 == _debounce(st, _classify(h0), t)
            st2 == [st1 EXCEPT !.kx = kalman_update(st1.kx, h0.tip[1]),
                               !.ky = kalman_update(st1.ky, h0.tip[2])]
            tip == <<kalman_int(st2.kx), kalman_int(st2.ky)>>
            g == st2.stable_gesture
            st3 == IF GestureColor(g) /= None
                   THEN [st2 EXCEPT !.color = GestureColor(g)[1]] ELSE st2
            clr == g = OPEN_PALM /\ _palm_timer_ret(st3, t)
            st4 == IF g = OPEN_PALM THEN _palm_timer(st3, t) ELSE _reset_palm(st3)
            pdl == IF g = PINCH THEN _pinch_ret(h0, st4) ELSE 0
            st5 == IF g = PINCH THEN _pinch(h0, st4) ELSE [st4 EXCEPT !.prev_pinch = None]
            st6 == [st5 EXCEPT !.swipe_history =
                      SelectSeq(Append(st5.swipe_history, <<t, tip[1]>>),
                                LAMBDA e : e[1] >= t - SWIPE_WINDOW)]
            sw == _swipe_ret(st6, t)
        IN  [ st |-> _swipe(st6, t),
              r |-> [r0 EXCEPT !.gesture = g, !.fingertip = tip,
                               !.fingertip_raw = h0.tip, !.color = st3.color,
                               !.clear = clr, !.pinch_delta = pdl,
                               !.undo = sw[1], !.slide_prev = sw[1],
                               !.redo = sw[2], !.slide_next = sw[2]] ]


\* -------------------------------------------------------- DetectionThread

\* A thread is at a line of thread_manager.py: pc is the line it executes
\* next. The main thread is at 0 between calls; the worker is at 0 before
\* start() and after _loop returns. A lock is None or <<its holder>>.
\* Three fields observe the exceptions of detect_fn: exc, the call of line 62
\* raised and its result is not stored yet; res_exc, the stored result is
\* that of a call that raised; excs, some call has raised.
DetectionInit ==
    [ frame |-> None, result |-> <<>>, fl |-> None, rl |-> None,
      running |-> FALSE, event |-> FALSE, started |-> FALSE,
      mpc |-> 0, arg |-> None, got |-> <<>>,
      wpc |-> 0, wframe |-> None, wresult |-> <<>>,
      during |-> 0, exc |-> FALSE, res_exc |-> FALSE, excs |-> FALSE ]

\* start()
start(d) == [d EXCEPT !.running = TRUE, !.started = TRUE, !.wpc = 52]

\* The calls the main thread has completed while detect_fn runs, up to 2.
Completed(d) == IF d.wpc = 62 THEN [d EXCEPT !.during = Min(2, d.during + 1)] ELSE d

\* A put_frame that keeps the frame the mailbox holds.
put_frame_keeping_first(d, frame) ==
    CASE d.mpc = 0  -> [d EXCEPT !.mpc = 43, !.arg = <<frame>>]
      [] d.mpc = 43 -> [d EXCEPT !.fl = <<"main">>, !.mpc = 44]
      [] d.mpc = 44 -> [d EXCEPT !.frame = IF @ = None THEN d.arg ELSE @,
                                 !.fl = None, !.mpc = 45]
      [] d.mpc = 45 -> Completed([d EXCEPT !.event = TRUE, !.mpc = 0])

\* One step of put_frame(frame): lines 43 (acquire _fl), 44 (store, release)
\* and 45 (set the event).
put_frame(d, frame) ==
    CASE d.mpc = 0  -> [d EXCEPT !.mpc = 43, !.arg = <<frame>>]
      [] d.mpc = 43 -> [d EXCEPT !.fl = <<"main">>, !.mpc = 44]
      [] d.mpc = 44 -> [d EXCEPT !.frame = d.arg, !.fl = None, !.mpc = 45]
      [] d.mpc = 45 -> Completed([d EXCEPT !.event = TRUE, !.mpc = 0])

\* One step of get_result(): lines 48 (acquire _rl) and 49 (read, release).
get_result(d) ==
    CASE d.mpc = 0  -> [d EXCEPT !.mpc = 48]
      [] d.mpc = 48 -> [d EXCEPT !.rl = <<"main">>, !.mpc = 49]
      [] d.mpc = 49 -> Completed([d EXCEPT !.got = d.result, !.rl = None, !.mpc = 0])

\* One step of stop(): lines 38, 39 and 40 (join returns when the worker has
\* ended or after its timeout).
stop(d) ==
    CASE d.mpc = 0  -> [d EXCEPT !.mpc = 38]
      [] d.mpc = 38 -> [d EXCEPT !.running = FALSE, !.mpc = 39]
      [] d.mpc = 39 -> [d EXCEPT !.event = TRUE, !.mpc = 40]
      [] d.mpc = 40 -> [d EXCEPT !.mpc = 0]

\* The step of the main thread at d.mpc waits for a lock.
MainWaits(d) ==
    \/ d.mpc = 43 /\ d.fl /= None
    \/ d.mpc = 48 /\ d.rl /= None

\* A worker that calls detect_fn inside the with-block of _fl.
_loop_detecting_under_fl(d, r) ==
    CASE d.wpc = 52 -> [d EXCEPT !.wpc = IF d.running THEN 53 ELSE 0]
      [] d.wpc = 53 -> [d EXCEPT !.wpc = 54]
      [] d.wpc = 54 -> [d EXCEPT !.event = FALSE, !.wpc = 55]
      [] d.wpc = 55 -> [d EXCEPT !.wpc = IF d.running THEN 57 ELSE 0]
      [] d.wpc = 57 -> [d EXCEPT !.fl = <<"worker">>, !.wpc = 58]
      [] d.wpc = 58 -> [d EXCEPT !.wframe = d.frame, !.wpc = 59]
      [] d.wpc = 59 -> [d EXCEPT !.wpc = IF d.wframe = None THEN 52 ELSE 62,
                                 !.fl = IF d.wframe = None THEN None ELSE d.fl]
      [] d.wpc = 62 -> [d EXCEPT !.wresult = IF r.raises THEN <<>> ELSE r.hands,
                                 !.exc = r.raises, !.excs = @ \/ r.raises,
                                 !.fl = None, !.wpc = 65, !.during = 0]
      [] d.wpc = 65 -> [d EXCEPT !.rl = <<"worker">>, !.wpc = 66]
      [] d.wpc = 66 -> [d EXCEPT !.result = d.wresult, !.res_exc = d.exc,
                                 !.exc = FALSE, !.rl = None, !.wpc = 52]

\* A worker that reads _running at neither line 52 nor line 55.
_loop_never_ending(d, r) ==
    CASE d.wpc = 52 -> [d EXCEPT !.wpc = 53]
      [] d.wpc = 53 -> [d EXCEPT !.wpc = 54]
      [] d.wpc = 54 -> [d EXCEPT !.event = FALSE, !.wpc = 55]
      [] d.wpc = 55 -> [d EXCEPT !.wpc = 57]
      [] d.wpc = 57 -> [d EXCEPT !.fl = <<"worker">>, !.wpc = 58]
      [] d.wpc = 58 -> [d EXCEPT !.wframe = d.frame, !.fl = None, !.wpc = 59]
      [] d.wpc = 59 -> [d EXCEPT !.wpc = IF d.wframe = None THEN 52 ELSE 62]
      [] d.wpc = 62 -> [d EXCEPT !.wresult = IF r.raises THEN <<>> ELSE r.hands,
                                 !.exc = r.raises, !.excs = @ \/ r.raises,
                                 !.wpc = 65, !.during = 0]
      [] d.wpc = 65 -> [d EXCEPT !.rl = <<"worker">>, !.wpc = 66]
      [] d.wpc = 66 -> [d EXCEPT !.result = d.wresult, !.res_exc = d.exc,
                                 !.exc = FALSE, !.rl = None, !.wpc = 52]

\* A worker without the try block of lines 61 to 64: what detect_fn raises
\* ends the thread.
_loop_without_except(d, r) ==
    CASE d.wpc = 52 -> [d EXCEPT !.wpc = IF d.running THEN 53 ELSE 0]
      [] d.wpc = 53 -> [d EXCEPT !.wpc = 54]
      [] d.wpc = 54 -> [d EXCEPT !.event = FALSE, !.wpc = 55]
      [] d.wpc = 55 -> [d EXCEPT !.wpc = IF d.running THEN 57 ELSE 0]
      [] d.wpc = 57 -> [d EXCEPT !.fl = <<"worker">>, !.wpc = 58]
      [] d.wpc = 58 -> [d EXCEPT !.wframe = d.frame, !.fl = None, !.wpc = 59]
      [] d.wpc = 59 -> [d EXCEPT !.wpc = IF d.wframe = None THEN 52 ELSE 62]
      [] d.wpc = 62 -> IF r.raises
                       THEN [d EXCEPT !.exc = TRUE, !.excs = TRUE, !.wpc = 0, !.during = 0]
                       ELSE [d EXCEPT !.wresult = r.hands, !.wpc = 65, !.during = 0]
      [] d.wpc = 65 -> [d EXCEPT !.rl = <<"worker">>, !.wpc = 66]
      [] d.wpc = 66 -> [d EXCEPT !.result = d.wresult, !.res_exc = d.exc,
                                 !.exc = FALSE, !.rl = None, !.wpc = 52]

\* One step of _loop: lines 52 (while), 53 (wait returns: the event is set or
\* the timeout has passed), 54 (clear), 55 (if not running), 57 (acquire
\* _fl), 58 (read, release), 59 (if frame is None), 62 to 64 (detect_fn
\* returns r.hands, or it raises, r.raises, and the result is []), 65
\* (acquire _rl), 66 (write, release).
_loop(d, r) ==
    CASE d.wpc = 52 -> [d EXCEPT !.wpc = IF d.running THEN 53 ELSE 0]
      [] d.wpc = 53 -> [d EXCEPT !.wpc = 54]
      [] d.wpc = 54 -> [d EXCEPT !.event = FALSE, !.wpc = 55]
      [] d.wpc = 55 -> [d EXCEPT !.wpc = IF d.running THEN 57 ELSE 0]
      [] d.wpc = 57 -> [d EXCEPT !.fl = <<"worker">>, !.wpc = 58]
      [] d.wpc = 58 -> [d EXCEPT !.wframe = d.frame, !.fl = None, !.wpc = 59]
      [] d.wpc = 59 -> [d EXCEPT !.wpc = IF d.wframe = None THEN 52 ELSE 62]
      [] d.wpc = 62 -> [d EXCEPT !.wresult = IF r.raises THEN <<>> ELSE r.hands,
                                 !.exc = r.raises, !.excs = @ \/ r.raises,
                                 !.wpc = 65, !.during = 0]
      [] d.wpc = 65 -> [d EXCEPT !.rl = <<"worker">>, !.wpc = 66]
      [] d.wpc = 66 -> [d EXCEPT !.result = d.wresult, !.res_exc = d.exc,
                                 !.exc = FALSE, !.rl = None, !.wpc = 52]

\* The step of the worker at d.wpc waits for a lock.
WorkerWaits(d) ==
    \/ d.wpc = 57 /\ d.fl /= None
    \/ d.wpc = 65 /\ d.rl /= None

\* ------------------------------------------------------------ AdvancedBrush

\* config.py
DEFAULT_THICKNESS == 5
MIN_THICKNESS == 1
MAX_THICKNESS == 50
ERASER_THICKNESS == 55

\* The colour (0, 0, 0) draw_params gives the eraser.
ERASER_COLOR == 9

\* AdvancedBrush.__init__. _prev_pt, _prev_time and _speed are read only when
\* SPEED_BRUSH_ENABLED is set, and _snap_grid is never set: they are left
\* out.
BrushInit ==
    [ thickness |-> DEFAULT_THICKNESS, eraser |-> FALSE,
      kx |-> KalmanInit, ky |-> KalmanInit ]

\* smooth(pt) for a point pt or None: the brush after the call; for a point
\* the call returns the integer parts of its two filters.
smooth(b, pt) ==
    IF pt = None
    THEN [b EXCEPT !.kx = kalman_reset(b.kx), !.ky = kalman_reset(b.ky)]
    ELSE [b EXCEPT !.kx = kalman_update(b.kx, pt[1]),
                   !.ky = kalman_update(b.ky, pt[2])]

\* What smooth(pt) returns for a point pt, from the brush after the call.
smooth_ret(b) == <<kalman_int(b.kx), kalman_int(b.ky)>>

\* A reset that leaves the filters as they are.
reset_keeping_filters(b) == b

reset(b) == [b EXCEPT !.kx = kalman_reset(b.kx), !.ky = kalman_reset(b.ky)]

\* draw_params: <<colour, thickness>>
draw_params(b, base_color) ==
    IF b.eraser THEN <<ERASER_COLOR, ERASER_THICKNESS>> ELSE <<base_color, b.thickness>>

\* The setter of eraser.
set_eraser(b, val) == reset([b EXCEPT !.eraser = val])

\* A setter that caps the thickness from above only.
set_thickness_capping_only(b, v) ==
    [b EXCEPT !.thickness = Min(v, MAX_THICKNESS)]

set_thickness(b, v) ==
    [b EXCEPT !.thickness = Max(MIN_THICKNESS, Min(v, MAX_THICKNESS))]

adjust(b, delta) == set_thickness(b, b.thickness + delta)

\* ---------------------------------------------------------- AnimatedToolbar

\* config.py, with seconds as milliseconds.
TOOLBAR_H == 68
BTN_W == 46
BTN_H == 42
BTN_GAP == 8
HOVER_ACTIVATE_SEC == 140
SWATCH_W == 26
SLIDER_W == 100

_COLORS ==
    << "color_green", "color_red", "color_blue", "color_black", "color_yellow",
       "color_purple", "color_orange" >>

_DRAW_TOOLS ==
    << "freedraw", "shape_circle", "shape_triangle", "shape_rectangle",
       "shape_line", "shape_heart", "eraser", "undo", "redo", "import_image",
       "grid_toggle", "clear", "save" >>

_SLIDE_TOOLS ==
    << "slide_prev", "slide_next", "laser_toggle", "save", "slide_annotate",
       "clear_annotation", "load_slides" >>

\* _build: the rows of buttons [action, x1, x2] (all buttons span BtnY), and
\* the slider.
BtnY == << TOOLBAR_H \div 2 - BTN_H \div 2, TOOLBAR_H \div 2 - BTN_H \div 2 + BTN_H >>

SliderX == BTN_GAP + 4 + Len(_COLORS) * (SWATCH_W + 4) + 6

_slider_rect == << SliderX, BtnY[1], SliderX + SLIDER_W, BtnY[2] >>

_draw_btns ==
    [ i \in 1..Len(_COLORS) |->
        [ action |-> _COLORS[i], x1 |-> BTN_GAP + 4 + (i - 1) * (SWATCH_W + 4),
          x2 |-> BTN_GAP + 4 + (i - 1) * (SWATCH_W + 4) + SWATCH_W ] ]
    \o
    [ j \in 1..Len(_DRAW_TOOLS) |->
        [ action |-> _DRAW_TOOLS[j],
          x1 |-> SliderX + SLIDER_W + 8 + 6 + (j - 1) * (BTN_W + 4),
          x2 |-> SliderX + SLIDER_W + 8 + 6 + (j - 1) * (BTN_W + 4) + BTN_W ] ]

_slide_btns ==
    [ j \in 1..Len(_SLIDE_TOOLS) |->
        [ action |-> _SLIDE_TOOLS[j], x1 |-> BTN_GAP + 4 + (j - 1) * (BTN_W + 4),
          x2 |-> BTN_GAP + 4 + (j - 1) * (BTN_W + 4) + BTN_W ] ]

\* AnimatedToolbar.__init__. Of each row at most one button has a hover
\* timer running: hover holds it as <<action, _hover_start>>.
ToolbarInit == [ hover |-> [ draw |-> None, slide |-> None ], last_hovered |-> None ]

\* update_hover(fingertip, slide_mode) at time t: [tb |-> the toolbar after
\* the call, action |-> what the call returns, None or <<action>>].
update_hover(tb, fingertip, slide_mode, t) ==
    LET row  == IF slide_mode THEN "slide" ELSE "draw"
        btns == IF slide_mode THEN _slide_btns ELSE _draw_btns
    IN  IF fingertip = None
        THEN [ tb |-> [tb EXCEPT !.hover[row] = None, !.last_hovered = None],
               action |-> None ]
        ELSE IF fingertip[2] > TOOLBAR_H
        THEN [ tb |-> [tb EXCEPT !.hover[row] = None], action |-> None ]
        ELSE
        LET hits == { i \in DOMAIN btns :
                        /\ btns[i].x1 <= fingertip[1] /\ fingertip[1] <= btns[i].x2
                        /\ BtnY[1] <= fingertip[2] /\ fingertip[2] <= BtnY[2] }
            InRow(a) == \E i \in DOMAIN btns : btns[i].action = a
        IN  IF hits = {}
            THEN [ tb |-> [tb EXCEPT !.hover[row] = None,
                                     !.last_hovered =
                                        IF @ /= None /\ InRow(@[1]) THEN None ELSE @],
                   action |-> None ]
            ELSE
            LET b     == btns[CHOOSE i \in hits : TRUE]
                began == IF tb.hover[row] /= None /\ tb.hover[row][1] = b.action
                         THEN tb.hover[row][2] ELSE t
                fire  == t - began >= HOVER_ACTIVATE_SEC /\ tb.last_hovered /= <<b.action>>
            IN  [ tb |-> [tb EXCEPT !.hover[row] = <<b.action, began>>,
                                    !.last_hovered =
                                       IF fire THEN <<b.action>>
                                       ELSE IF @ /= None /\ @ /= <<b.action>> /\ InRow(@[1])
                                       THEN None ELSE @],
                  action |-> IF fire THEN <<b.action>> ELSE None ]

\* slider_value: None or <<value>>
slider_value(fingertip) ==
    IF fingertip = None THEN None
    ELSE IF /\ _slider_rect[1] <= fingertip[1] /\ fingertip[1] <= _slider_rect[3]
            /\ _slider_rect[2] <= fingertip[2] /\ fingertip[2] <= _slider_rect[4]
    THEN << MIN_THICKNESS +
            ((fingertip[1] - _slider_rect[1]) * (MAX_THICKNESS - MIN_THICKNESS))
                \div Max(_slider_rect[3] - _slider_rect[1], 1) >>
    ELSE None

\* ------------------------------------------------- AppState, AppController

\* config.py: DEPTH_THRESHOLD in thousandths, as the depth of a landmark.
DEPTH_THRESHOLD == 60
VOICE_BRUSH_STEP == 5
KEY_BRUSH_STEP == 2

DrawingState ==
    [ IDLE |-> "IDLE", ARMED |-> "ARMED", DRAWING |-> "DRAWING",
      SHAPE_PREVIEW |-> "SHAPE_PREVIEW", COMMITTED |-> "COMMITTED",
      PAUSED |-> "PAUSED" ]

\* AppState as constructed. The fields the frame loop never reads back
\* (username, mirror_mode, show_landmarks, last_voice_cmd, last_state_ts, the
\* auto-capture settings) are left out.
AppStateInit ==
    [ tracking_active |-> TRUE, drawing_active |-> FALSE, prev_point |-> None,
      active_color |-> COL.GREEN, thickness |-> DEFAULT_THICKNESS,
      eraser_mode |-> FALSE, active_action |-> "color_green",
      shape_mode |-> FALSE, active_shape |-> "rectangle",
      depth_blocked |-> FALSE, slide_mode |-> FALSE, laser_mode |-> FALSE,
      slide_annotate |-> FALSE, bg_mode |-> "none", force_stop |-> FALSE,
      drawing_state |-> DrawingState.IDLE, last_state_reason |-> "" ]

\* The fields of an AppState that set_drawing_state reads and writes, as
\* constructed, and no call made yet: pre, the fields before the call; arg,
\* the new_state of the call; ret and raised, what the call returned and
\* whether it raised.
StateCallInit ==
    [ s |-> [ drawing_state |-> DrawingState.IDLE, last_state_reason |-> "",
              last_state_ts |-> 0 ],
      pre |-> [ drawing_state |-> DrawingState.IDLE, last_state_reason |-> "",
                last_state_ts |-> 0 ],
      arg |-> None, ret |-> FALSE, raised |-> FALSE ]

\* --------------------------------------------------------- SlideController

\* SlideController.__init__: count is len(_slides) and index is _index;
\* dialogs is the number of folder dialogs open, each in a thread of its
\* own; calls, the calls of next() and prev() the step made.
SlidesInit == [ count |-> 0, index |-> 0, dialogs |-> 0, calls |-> <<>> ]

\* next()
slides_next(sl) ==
    [sl EXCEPT !.index = IF sl.count > 0 THEN (sl.index + 1) % sl.count ELSE @,
               !.calls = Append(@, "next")]

\* prev(); Python's % gives the remainder that is not negative.
slides_prev(sl) ==
    [sl EXCEPT !.index = IF sl.count > 0 THEN (sl.index + sl.count - 1) % sl.count
                         ELSE @,
               !.calls = Append(@, "prev")]

\* load_dialog(): a thread opens the folder dialog.
load_dialog(sl) == [sl EXCEPT !.dialogs = @ + 1]

\* load_folder(folder) in the thread of a dialog, for a folder with n images
\* that can be read.
load_folder(sl, n) == [sl EXCEPT !.count = n, !.index = 0, !.dialogs = @ - 1]

\* The locals of run() that one part of the loop body leaves to the next:
\* the hands of the frame, the GestureResult, paused_by_state and depth_ok.
LocalsInit ==
    [ hands |-> <<>>, gr |-> GestureResultInit, paused_by_state |-> FALSE,
      depth_ok |-> TRUE, acted |-> FALSE, mode |-> "", slide |-> FALSE ]

\* AppController.__init__: the world of the controller w, with its objects
\* and fields under their names. pickers holds the image-picker threads
\* running, each at a line of _pick. The rest is what a step leaves to be
\* seen: log, the [DRAW_STATE] lines the step printed, as <<old, new,
\* reason>>; calls, the calls the step made on the canvas, as <<thread,
\* call>>; pend, whether a push_undo() call is waiting for its edit; bad,
\* whether a push_undo() call got no edit or a second push_undo() call
\* before it, or an edit got no push_undo() call; pre, the drawing state the
\* frame started in; slides, the slide deck; swipe, the time t of the frame's
\* gesture update, whether it set a swipe flag, and the time of the last
\* update before it that set one; resume, whether the frame carried a voice resume
\* command or the ESC key; exact, whether the frame's update of the shape
\* engine was exact; ret, what the last call that returns a value returned.
\* sel is the colour the toolbar or the voice picked last, with the number of
\* the frame that picked it, while neither a pick of the eraser nor a frame
\* whose stable gesture has a colour of its own has followed.
WorldInit ==
    [ state |-> AppStateInit, canvas |-> CanvasInit, shapes |-> ShapeInit,
      gesture |-> HandGestureStateInit, brush |-> BrushInit,
      toolbar |-> ToolbarInit, ref_z |-> 0, stroke_started |-> FALSE,
      onboarding_done |-> FALSE, prev_gesture |-> NONE,
      shape_pinch_active |-> FALSE, voice_active |-> TRUE, quit |-> FALSE,
      pickers |-> <<>>, slides |-> SlidesInit,
      swipe |-> [ t |-> 0, fired |-> FALSE, prev |-> None ],
      log |-> <<>>, calls |-> <<>>, pend |-> FALSE, bad |-> FALSE,
      pre |-> DrawingState.IDLE, resume |-> FALSE, exact |-> TRUE,
      ret |-> FALSE, frames |-> 0, loc |-> LocalsInit,
      combo |-> [ kind |-> "", acts |-> 0 ], tripped |-> None,
      resumed |-> None, last |-> LocalsInit, gap |-> FALSE, sel |-> None ]

\* DrawingState.ALL
DrawingStateALL ==
    { DrawingState.IDLE, DrawingState.ARMED, DrawingState.DRAWING,
      DrawingState.SHAPE_PREVIEW, DrawingState.COMMITTED, DrawingState.PAUSED }

\* An AppState that accepts every new_state.
AppState_set_drawing_state_unchecked(s, new_state, reason, t) ==
    IF s.drawing_state = new_state
    THEN [s |-> s, raised |-> FALSE, ret |-> FALSE, printed |-> <<>>]
    ELSE [s |-> [s EXCEPT !.drawing_state = new_state,
                          !.last_state_reason = reason,
                          !.last_state_ts = t],
          raised |-> FALSE, ret |-> TRUE,
          printed |-> << <<s.drawing_state, new_state, reason>> >>]

\* AppState.set_drawing_state(new_state, reason) at time t on the fields s
\* of the AppState it reads and writes: the fields after the call, whether
\* it raised ValueError, what it returned and the [DRAW_STATE] line it
\* printed, as <<old, new, reason>>.
AppState_set_drawing_state(s, new_state, reason, t) ==
    IF new_state \notin DrawingStateALL
    THEN [s |-> s, raised |-> TRUE, ret |-> FALSE, printed |-> <<>>]
    ELSE IF s.drawing_state = new_state
    THEN [s |-> s, raised |-> FALSE, ret |-> FALSE, printed |-> <<>>]
    ELSE [s |-> [s EXCEPT !.drawing_state = new_state,
                          !.last_state_reason = reason,
                          !.last_state_ts = t],
          raised |-> FALSE, ret |-> TRUE,
          printed |-> << <<s.drawing_state, new_state, reason>> >>]

\* self._state.set_drawing_state(new_state, reason) of the controller, which
\* reads neither last_state_ts nor what the call returns.
set_drawing_state(w, new_state, reason) ==
    LET r == AppState_set_drawing_state(
                 [drawing_state |-> w.state.drawing_state,
                  last_state_reason |-> w.state.last_state_reason,
                  last_state_ts |-> 0], new_state, reason, 0)
    IN  [w EXCEPT !.state.drawing_state = r.s.drawing_state,
                  !.state.last_state_reason = r.s.last_state_reason,
                  !.log = @ \o r.printed]

\* Thread th calls the canvas, which becomes c. The calls are push_undo; the
\* edits: stroke (the draw_line of a stroke's first segment), draw_shape,
\* clear (after its own push_undo), blit_image; no_edit, a blit_image that
\* raises; and the calls that are no edit: segment (the draw_line of a later
\* segment of the stroke), undo, redo, set_bg_mode, blend.
CanvasCall(w, th, call, c) ==
    LET edit == call \in {"stroke", "draw_shape", "clear", "blit_image"}
    IN  [w EXCEPT !.canvas = c,
                  !.calls = Append(@, <<th, call>>),
                  !.pend = IF call = "push_undo" THEN TRUE
                           ELSE IF edit \/ call = "no_edit" THEN FALSE ELSE @,
                  !.bad = \/ @
                          \/ call = "push_undo" /\ w.pend
                          \/ edit /\ ~w.pend
                          \/ call = "no_edit"]

\* self._canvas.clear()
CanvasClear(w, th) ==
    LET w1 == CanvasCall(w, th, "push_undo", push_undo(w.canvas))
    IN  CanvasCall(w1, th, "clear", clear(w.canvas))

\* _check_depth(norm_lm), norm_lm being that of hands[1], or None when there
\* are no hands: ret is what the call returns. DEPTH_MODE is "z_axis".
_check_depth(w, hands) ==
    IF hands = <<>> THEN [w EXCEPT !.ret = TRUE]
    ELSE LET ref == IF ~w.stroke_started THEN hands[1].z ELSE w.ref_z
         IN  [w EXCEPT !.ref_z = ref, !.ret = hands[1].z - ref <= DEPTH_THRESHOLD]

\* A halt that leaves the shape engine as it is.
_halt_keeping_shape(w, reset_shape) ==
    [w EXCEPT !.state.drawing_active = FALSE, !.state.prev_point = None,
              !.brush = reset(@),
              !.stroke_started = FALSE, !.shape_pinch_active = FALSE]

_halt(w, reset_shape) ==
    [w EXCEPT !.state.drawing_active = FALSE, !.state.prev_point = None,
              !.brush = reset(@),
              !.shapes = IF reset_shape THEN cancel(@) ELSE @,
              !.stroke_started = FALSE, !.shape_pinch_active = FALSE]

\* A commit that leaves the state at COMMITTED.
_commit_shape_preview_staying_committed(w, reason) ==
    LET result == finalize_ret(w.shapes)
        w1 == [w EXCEPT !.shapes = finalize(@)]
    IN  IF result = None THEN [w1 EXCEPT !.ret = FALSE]
        ELSE
        LET w2 == CanvasCall(w1, "main", "push_undo", push_undo(w1.canvas))
            w3 == CanvasCall(w2, "main", "draw_shape",
                             draw_shape(w2.canvas, result[1], result[2], result[3],
                                        w2.state.active_color, w2.state.thickness, FALSE))
        IN  [set_drawing_state(w3, DrawingState.COMMITTED, reason)
                EXCEPT !.ret = TRUE]

\* _commit_shape_preview: ret is what the call returns.
_commit_shape_preview(w, reason) ==
    LET result == finalize_ret(w.shapes)
        w1 == [w EXCEPT !.shapes = finalize(@)]
    IN  IF result = None THEN [w1 EXCEPT !.ret = FALSE]
        ELSE
        LET w2 == CanvasCall(w1, "main", "push_undo", push_undo(w1.canvas))
            w3 == CanvasCall(w2, "main", "draw_shape",
                             draw_shape(w2.canvas, result[1], result[2], result[3],
                                        w2.state.active_color, w2.state.thickness, FALSE))
            w4 == set_drawing_state(w3, DrawingState.COMMITTED, reason)
        IN  [set_drawing_state(w4, DrawingState.IDLE, "shape finalization reset")
                EXCEPT !.ret = TRUE]

\* A pause request that always ends the tracking.
_request_pause_ending_tracking(w, reason, commit_shape, disable_tracking) ==
    LET w1 == IF commit_shape THEN _commit_shape_preview(w, reason)
              ELSE [w EXCEPT !.ret = FALSE]
        w2 == _halt(w1, ~w1.ret)
        w3 == [w2 EXCEPT !.state.force_stop = TRUE,
                         !.state.tracking_active = FALSE]
    IN  set_drawing_state(w3, DrawingState.PAUSED, reason)

_request_pause(w, reason, commit_shape, disable_tracking) ==
    LET w1 == IF commit_shape THEN _commit_shape_preview(w, reason)
              ELSE [w EXCEPT !.ret = FALSE]
        w2 == _halt(w1, ~w1.ret)
        w3 == [w2 EXCEPT !.state.force_stop = TRUE,
                         !.state.tracking_active = IF disable_tracking THEN FALSE ELSE @]
    IN  set_drawing_state(w3, DrawingState.PAUSED, reason)

\* A resume that leaves force_stop and tracking_active as they are.
_resume_from_pause_keeping_stop(w, reason) ==
    set_drawing_state(
        [w EXCEPT !.state.drawing_active = FALSE, !.state.prev_point = None,
                  !.stroke_started = FALSE, !.shape_pinch_active = FALSE],
        DrawingState.ARMED, reason)

_resume_from_pause(w, reason) ==
    set_drawing_state(
        [w EXCEPT !.state.force_stop = FALSE, !.state.tracking_active = TRUE,
                  !.state.drawing_active = FALSE, !.state.prev_point = None,
                  !.stroke_started = FALSE, !.shape_pinch_active = FALSE],
        DrawingState.ARMED, reason)

\* resumed notes the _resume_from_pause call that has just returned: its
\* reason and the fields of the state as the call leaves them.
Resumed(w, reason) ==
    [w EXCEPT !.resumed =
        << [ reason |-> reason,
             drawing_state |-> w.state.drawing_state,
             tracking_active |-> w.state.tracking_active,
             force_stop |-> w.state.force_stop,
             drawing_active |-> w.state.drawing_active,
             prev_point |-> w.state.prev_point,
             stroke_started |-> w.stroke_started ] >>]

_tick_state_machine(w) ==
    LET state == w.state.drawing_state
    IN  IF state = DrawingState.PAUSED THEN w
        ELSE IF w.state.shape_mode /\ has_preview(w.shapes)
        THEN set_drawing_state(w, DrawingState.SHAPE_PREVIEW, "shape preview active")
        ELSE IF w.state.drawing_active
        THEN set_drawing_state(w, DrawingState.DRAWING, "stroke active")
        ELSE IF state = DrawingState.SHAPE_PREVIEW /\ ~has_preview(w.shapes)
        THEN set_drawing_state(w, DrawingState.IDLE, "shape preview ended")
        ELSE IF state = DrawingState.DRAWING /\ ~w.state.drawing_active
        THEN set_drawing_state(
                 set_drawing_state(w, DrawingState.COMMITTED, "stroke frozen"),
                 DrawingState.IDLE, "stroke end")
        ELSE IF state = DrawingState.IDLE /\ w.state.tracking_active /\ ~w.state.force_stop
        THEN set_drawing_state(w, DrawingState.ARMED, "tracking active")
        ELSE w

\* _handle_freedraw(is_drawing, fingertip, norm_lm), norm_lm as in
\* _check_depth.
_handle_freedraw(w, is_drawing, fingertip, hands) ==
    IF is_drawing /\ fingertip /= None
    THEN
        LET w1 == IF w.state.drawing_active THEN w
                  ELSE set_drawing_state(
                         [CanvasCall(w, "main", "push_undo", push_undo(w.canvas))
                             EXCEPT !.ref_z = IF hands /= <<>> THEN hands[1].z ELSE @,
                                    !.stroke_started = TRUE,
                                    !.state.drawing_active = TRUE],
                         DrawingState.DRAWING, "free-draw started")
            pen == draw_params(w1.brush, w1.state.active_color)
            b   == smooth(w1.brush, fingertip)
            pt  == <<kalman_int(b.kx), kalman_int(b.ky)>>
            w2  == CanvasCall([w1 EXCEPT !.brush = b], "main",
                              IF w.state.drawing_active THEN "segment" ELSE "stroke",
                              draw_line(w1.canvas, w1.state.prev_point, pt,
                                        pen[1], pen[2], w1.state.eraser_mode))
        IN  [w2 EXCEPT !.state.prev_point = pt]
    ELSE
        LET w1 == IF ~w.state.drawing_active THEN w
                  ELSE set_drawing_state(
                         set_drawing_state([w EXCEPT !.stroke_started = FALSE],
                                           DrawingState.COMMITTED, "free-draw ended"),
                         DrawingState.IDLE, "awaiting re-arm")
        IN  [w1 EXCEPT !.state.drawing_active = FALSE, !.state.prev_point = None,
                       !.brush = reset(@)]

\* _handle_shape(is_drawing, fingertip, norm_lm, pinch_released) at time t.
_handle_shape(w, is_drawing, fingertip, hands, pinch_released, t) ==
    LET w1 == IF is_drawing /\ hands /= <<>> /\ ~w.stroke_started
              THEN [w EXCEPT !.ref_z = hands[1].z, !.stroke_started = TRUE] ELSE w
        w2 == IF ~is_drawing /\ w1.state.drawing_state /= DrawingState.SHAPE_PREVIEW
              THEN [w1 EXCEPT !.stroke_started = FALSE] ELSE w1
        w3 == [w2 EXCEPT !.exact = EmaExact(w2.shapes, fingertip),
                         !.shapes = update(@, fingertip, is_drawing, t)]
        w4 == IF has_preview(w3.shapes)
              THEN set_drawing_state(w3, DrawingState.SHAPE_PREVIEW, "shape preview active")
              ELSE w3
    IN  IF pinch_released /\ has_preview(w4.shapes)
        THEN [_commit_shape_preview(w4, "pinch released") EXCEPT !.stroke_started = FALSE]
        ELSE w4

_toggle_voice(w) == [w EXCEPT !.voice_active = ~@]

_toggle_grid(w) ==
    LET mode == CASE w.state.bg_mode = "none" -> "grid"
                  [] w.state.bg_mode = "grid" -> "ruled"
                  [] OTHER -> "none"
    IN  CanvasCall([w EXCEPT !.state.bg_mode = mode], "main", "set_bg_mode",
                   set_bg_mode(w.canvas, mode))

\* _import_image: a picker thread starts at the first line of _pick.
_import_image(w) == [w EXCEPT !.pickers = Append(@, [pc |-> 829, img |-> None])]

_COLOR_MAP ==
    [ color_green |-> COL.GREEN, color_red |-> COL.RED, color_blue |-> COL.BLUE,
      color_black |-> COL.BLACK, color_yellow |-> COL.YELLOW,
      color_purple |-> COL.PURPLE, color_orange |-> COL.ORANGE,
      color_white |-> COL.WHITE ]

\* f"shape_{shape}"
ShapeAction ==
    [ rectangle |-> "shape_rectangle", circle |-> "shape_circle",
      ellipse |-> "shape_ellipse", line |-> "shape_line",
      triangle |-> "shape_triangle", heart |-> "shape_heart" ]

\* The branch of _dispatch_voice and of _handle_toolbar that picks a colour.
PickColor(w, action) ==
    IF action \notin DOMAIN _COLOR_MAP THEN w
    ELSE [w EXCEPT !.state.active_color = _COLOR_MAP[action],
                   !.state.active_action = action,
                   !.state.eraser_mode = FALSE,
                   !.brush = set_eraser(@, FALSE),
                   !.sel = << _COLOR_MAP[action], w.frames >>]

\* ... that picks a shape.
PickShape(w, shape) ==
    [w EXCEPT !.state.shape_mode = TRUE, !.state.active_shape = shape,
              !.shapes = set_shape(@, shape),
              !.state.active_action = ShapeAction[shape]]

\* ... that changes the thickness of the brush to v.
PickThickness(w, v) ==
    LET b == set_thickness(w.brush, v)
    IN  [w EXCEPT !.brush = b, !.state.thickness = b.thickness]

\* _dispatch_voice(cmd, frame) for a command [type, payload]; a command
\* whose payload is not read has none.
_dispatch_voice(w, cmd) ==
    CASE cmd.type = "STOP" -> _request_pause(w, "voice stop", TRUE, TRUE)
      [] cmd.type = "DRAW_SHAPE" -> PickShape(w, cmd.payload.shape)
      [] cmd.type = "FREE_DRAW" -> [w EXCEPT !.state.shape_mode = FALSE]
      [] cmd.type = "SET_COLOR" -> PickColor(w, cmd.payload.action)
      [] cmd.type = "BRUSH_UP" -> PickThickness(w, w.brush.thickness + VOICE_BRUSH_STEP)
      [] cmd.type = "BRUSH_DOWN" -> PickThickness(w, w.brush.thickness - VOICE_BRUSH_STEP)
      [] cmd.type = "BRUSH_SET" -> PickThickness(w, cmd.payload.size)
      [] cmd.type = "CLEAR" -> [CanvasClear(w, "main") EXCEPT !.state.prev_point = None]
      [] cmd.type = "SAVE" -> CanvasCall(w, "main", "blend", blend(w.canvas, TRUE))
      [] cmd.type = "PAUSE" -> _request_pause(w, "voice pause", FALSE, TRUE)
      [] cmd.type = "RESUME" ->
            Resumed(_resume_from_pause(w, "voice start"), "voice start")
      [] cmd.type = "UNDO" -> CanvasCall(w, "main", "undo", undo(w.canvas))
      [] cmd.type = "REDO" -> CanvasCall(w, "main", "redo", redo(w.canvas))
      [] cmd.type = "SLIDE_MODE" ->
            [w EXCEPT !.state.slide_mode = TRUE, !.state.active_action = "slide_mode"]
      [] cmd.type = "DRAW_MODE" -> [w EXCEPT !.state.slide_mode = FALSE]
      [] cmd.type = "NEXT_SLIDE" -> [w EXCEPT !.slides = slides_next(@)]
      [] cmd.type = "PREV_SLIDE" -> [w EXCEPT !.slides = slides_prev(@)]
      [] cmd.type = "GRID_TOGGLE" -> _toggle_grid(w)
      [] cmd.type = "IMPORT_IMAGE" -> _import_image(w)
      [] OTHER -> w

\* _process_voice, for what the listener has queued: text is <<>>, or holds
\* the command the parser makes of the text.
_process_voice(w, text) ==
    IF ~w.voice_active \/ text = <<>> THEN w
    ELSE IF text[1].type = "UNKNOWN" THEN w
    ELSE _dispatch_voice(w, text[1])

_handle_toolbar(w, action) ==
    CASE action \in DOMAIN _COLOR_MAP -> PickColor(w, action)
      [] action = "freedraw" ->
            [w EXCEPT !.state.shape_mode = FALSE, !.state.active_action = "freedraw"]
      [] action = "eraser" ->
            [w EXCEPT !.state.eraser_mode = TRUE, !.state.active_action = "eraser",
                      !.brush = set_eraser(@, TRUE), !.sel = None]
      [] \E s \in DOMAIN ShapeAction : ShapeAction[s] = action ->
            PickShape(w, CHOOSE s \in DOMAIN ShapeAction : ShapeAction[s] = action)
      [] action = "undo" -> CanvasCall(w, "main", "undo", undo(w.canvas))
      [] action = "redo" -> CanvasCall(w, "main", "redo", redo(w.canvas))
      [] action = "grid_toggle" -> _toggle_grid(w)
      [] action = "import_image" -> _import_image(w)
      [] action = "clear" -> [CanvasClear(w, "main") EXCEPT !.state.prev_point = None]
      [] action = "save" -> CanvasCall(w, "main", "blend", blend(w.canvas, TRUE))
      [] action = "slide_prev" -> [w EXCEPT !.slides = slides_prev(@)]
      [] action = "slide_next" -> [w EXCEPT !.slides = slides_next(@)]
      [] action = "laser_toggle" -> [w EXCEPT !.state.laser_mode = ~@]
      [] action = "load_slides" -> [w EXCEPT !.slides = load_dialog(@)]
      [] action = "slide_annotate" -> [w EXCEPT !.state.slide_annotate = ~@]
      [] OTHER -> w

_on_gesture_change(w, gesture) ==
    IF gesture = FIST THEN _request_pause(w, "fist gesture", TRUE, FALSE) ELSE w

\* _handle_keys(key, frame); quit is what the call returns.
_handle_keys(w, key) ==
    CASE key = "q" -> [w EXCEPT !.quit = TRUE]
      [] key = "u" -> CanvasCall(w, "main", "undo", undo(w.canvas))
      [] key = "r" -> CanvasCall(w, "main", "redo", redo(w.canvas))
      [] key = "+" -> PickThickness(w, w.brush.thickness + KEY_BRUSH_STEP)
      [] key = "-" -> PickThickness(w, w.brush.thickness - KEY_BRUSH_STEP)
      [] key = "v" -> _toggle_voice(w)
      [] key = "g" -> _toggle_grid(w)
      [] key = "p" -> [w EXCEPT !.state.slide_mode = ~@]
      [] key = "i" -> _import_image(w)
      [] key = "o" -> [w EXCEPT !.slides = load_dialog(@)]
      [] key = "ESC" ->
            LET w1 == [w EXCEPT !.state.shape_mode = FALSE, !.shapes = cancel(@)]
            IN  IF w1.state.drawing_state = DrawingState.PAUSED
                THEN Resumed(_resume_from_pause(w1, "keyboard escape"),
                             "keyboard escape")
                ELSE set_drawing_state([w1 EXCEPT !.state.force_stop = FALSE],
                                       DrawingState.IDLE, "escape reset")
      [] OTHER -> w

\* The fingertip the frame works with, and whether it is in the toolbar.
Fingertip(gr) == IF gr.fingertip_raw /= None THEN gr.fingertip_raw ELSE gr.fingertip
InToolbar(gr) == Fingertip(gr) /= None /\ Fingertip(gr)[2] < TOOLBAR_H

\* The parts of the body of the loop of run(), in the order of the source;
\* each takes the world as the part before it leaves it. f is what the
\* frame brings and t what time.time() gives.
run_begin(w, f) ==
    [w EXCEPT !.log = <<>>, !.calls = <<>>, !.exact = TRUE, !.ret = FALSE,
              !.slides.calls = <<>>,
              !.tripped = None, !.resumed = None,
              !.pre = w.state.drawing_state,
              !.resume = \/ f.key = "ESC"
                         \/ f.text /= <<>> /\ f.text[1].type = "RESUME"]

run_onboarding(w, f) ==
    LET w1 == IF ~f.done THEN w
              ELSE set_drawing_state([w EXCEPT !.onboarding_done = TRUE],
                                     DrawingState.ARMED, "onboarding complete")
    IN  IF f.key = "q" THEN [w1 EXCEPT !.quit = TRUE] ELSE w1

run_voice(w, f) == _process_voice([w EXCEPT !.frames = @ + 1], f.text)

run_gesture_result(w, hands, g, t) ==
    [w EXCEPT !.gesture = g.st, !.loc.hands = hands, !.loc.gr = g.r,
              !.sel = IF GestureColor(g.r.gesture) /= None THEN None ELSE @,
              !.swipe = [ t |-> t,
                          fired |-> \/ g.r.undo \/ g.r.redo
                                    \/ g.r.slide_prev \/ g.r.slide_next,
                          prev |-> IF w.swipe.fired THEN <<w.swipe.t>>
                                   ELSE w.swipe.prev ]]

run_gesture(w, f, t) ==
    run_gesture_result(w, IF w.state.tracking_active THEN f.hands ELSE <<>>,
                       gesture_update(w.gesture,
                                      IF w.state.tracking_active THEN f.hands ELSE <<>>, t),
                       t)

run_gesture_change(w) ==
    IF w.loc.gr.gesture = w.prev_gesture THEN w
    ELSE [_on_gesture_change(w, w.loc.gr.gesture)
             EXCEPT !.prev_gesture = w.loc.gr.gesture]

run_color(w) ==
    LET paused_by_state == w.state.drawing_state = DrawingState.PAUSED
    IN  [w EXCEPT !.loc.paused_by_state = paused_by_state,
                  !.state.active_color =
                      IF ~paused_by_state /\ ~w.state.eraser_mode
                      THEN w.loc.gr.color ELSE @]

run_undo(w) ==
    IF w.loc.gr.undo /\ ~w.state.slide_mode /\ ~w.loc.paused_by_state
    THEN CanvasCall(w, "main", "undo", undo(w.canvas)) ELSE w

run_redo(w) ==
    IF w.loc.gr.redo /\ ~w.state.slide_mode /\ ~w.loc.paused_by_state
    THEN CanvasCall(w, "main", "redo", redo(w.canvas)) ELSE w

run_clear(w) ==
    IF w.loc.gr.clear /\ ~w.loc.paused_by_state THEN CanvasClear(w, "main") ELSE w

\* loc.acted notes that the frame has acted on a two-hand combo.
run_two_hand_clear(w) ==
    IF w.loc.gr.two_hand_clear /\ ~w.loc.paused_by_state
    THEN [CanvasClear(w, "main") EXCEPT !.loc.acted = TRUE] ELSE w

run_two_hand_pause(w) ==
    IF w.loc.gr.two_hand_pause /\ ~w.loc.paused_by_state
    THEN [_request_pause(w, "two-hand fist pause", TRUE, FALSE)
             EXCEPT !.loc.acted = TRUE]
    ELSE w

\* Slide navigation via swipe. loc.slide notes slide_mode as the consumers
\* of the swipe found it.
run_slides(w) ==
    IF w.state.slide_mode /\ ~w.loc.paused_by_state
    THEN LET sl1 == IF w.loc.gr.slide_next THEN slides_next(w.slides) ELSE w.slides
             sl2 == IF w.loc.gr.slide_prev THEN slides_prev(sl1) ELSE sl1
         IN  [w EXCEPT !.slides = sl2, !.loc.slide = TRUE]
    ELSE [w EXCEPT !.loc.slide = w.state.slide_mode]

\* A pinch resize that a pause does not gate.
run_pinch_while_paused(w) ==
    IF /\ w.loc.gr.gesture = PINCH /\ w.loc.gr.pinch_delta /= 0
       /\ ~w.state.shape_mode
    THEN PickThickness(w, w.brush.thickness + w.loc.gr.pinch_delta) ELSE w

run_pinch(w) ==
    IF /\ w.loc.gr.gesture = PINCH /\ w.loc.gr.pinch_delta /= 0
       /\ ~w.state.shape_mode /\ w.state.drawing_state /= DrawingState.PAUSED
    THEN PickThickness(w, w.brush.thickness + w.loc.gr.pinch_delta) ELSE w

run_depth_checked(w) ==
    [w EXCEPT !.loc.depth_ok = w.ret, !.state.depth_blocked = ~w.ret]

\* tripped notes that the guard has tripped in this frame, and what
\* finalize() would have returned when it did.
run_depth_pause(w) ==
    IF /\ ~w.loc.depth_ok /\ w.stroke_started
       /\ w.state.drawing_state /= DrawingState.PAUSED
    THEN [_request_pause(w, "depth threshold exceeded", FALSE, FALSE)
             EXCEPT !.tripped = <<finalize_ret(w.shapes)>>]
    ELSE w

run_depth(w) == run_depth_pause(run_depth_checked(_check_depth(w, w.loc.hands)))

run_toolbar_action(w, hov) ==
    IF hov.action = None THEN [w EXCEPT !.toolbar = hov.tb]
    ELSE _handle_toolbar([w EXCEPT !.toolbar = hov.tb], hov.action[1])

run_toolbar(w, t) ==
    run_toolbar_action(w, update_hover(w.toolbar, Fingertip(w.loc.gr),
                                       w.state.slide_mode, t))

run_slider(w) ==
    LET slider_val == IF InToolbar(w.loc.gr) THEN slider_value(Fingertip(w.loc.gr))
                      ELSE None
    IN  IF slider_val = None THEN w ELSE PickThickness(w, slider_val[1])

run_draw(w, t) ==
    LET gr         == w.loc.gr
        is_paused  == w.state.drawing_state = DrawingState.PAUSED
        is_drawing == /\ gr.gesture = DRAWING /\ ~InToolbar(gr)
                      /\ w.state.tracking_active /\ w.loc.depth_ok /\ ~is_paused
        pinch_active   == gr.gesture = PINCH
        pinch_released == w.shape_pinch_active /\ ~pinch_active
        w16 == [w EXCEPT !.shape_pinch_active = w.state.shape_mode /\ pinch_active,
                         !.loc.mode = IF w.state.slide_mode THEN "slide"
                                      ELSE IF w.state.shape_mode THEN "shape"
                                      ELSE "free"]
    IN  IF w.state.slide_mode
        THEN [w16 EXCEPT !.state.laser_mode = (gr.gesture = OPEN_PALM)]
        ELSE IF w.state.shape_mode
        THEN _handle_shape(w16, is_drawing, Fingertip(gr), w.loc.hands,
                           pinch_released, t)
        ELSE _handle_freedraw(w16, is_drawing, Fingertip(gr), w.loc.hands)

run_blend(w) ==
    IF w.state.slide_mode THEN w
    ELSE CanvasCall(w, "main", "blend", blend(w.canvas, TRUE))

run_input(w, f, t) ==
    run_gesture_change(run_gesture(run_voice(run_begin(w, f), f), f, t))

run_gesture_actions(w) ==
    run_pinch(run_slides(run_two_hand_pause(run_two_hand_clear(run_clear(run_redo(
        run_undo(run_color(w))))))))

run_tools(w, t) == run_slider(run_toolbar(run_depth(w), t))

\* The two-hand combo of the frame's gesture result.
ComboOf(gr) ==
    IF gr.two_hand_clear THEN "clear" ELSE IF gr.two_hand_pause THEN "pause" ELSE ""

\* The iteration is over: its locals are gone. combo keeps the two-hand
\* combo the frame showed, and in how many of the frames in a row that
\* showed it the loop has acted on it; last keeps the locals as the frame
\* left them (loc.mode is the branch the frame took to draw), and gap
\* whether the frame before had no hands.
run_end(w) ==
    LET kind == ComboOf(w.loc.gr)
        acts == IF kind = "" THEN 0
                ELSE (IF kind = w.combo.kind THEN w.combo.acts ELSE 0)
                     + (IF w.loc.acted THEN 1 ELSE 0)
    IN  [w EXCEPT !.loc = LocalsInit, !.combo = [ kind |-> kind, acts |-> acts ],
                  !.last = w.loc, !.gap = (w.frames > 1 /\ w.last.hands = <<>>)]

\* The body of the loop of run() at time t, for what the frame brings: f.done,
\* whether the onboarding screen is done; f.text, what the voice listener has
\* queued; f.hands, what the detection thread has for get_result(); f.key,
\* the key waitKey returns ("" for none). All the calls of time.time() in
\* the frame give t. The overlays are not modelled: no call on them changes
\* what is modelled here.
run_frame(w, f, t) ==
    IF ~w.onboarding_done
    THEN run_onboarding(run_begin(w, f), f)
    ELSE run_end(_handle_keys(run_blend(_tick_state_machine(
             run_draw(run_tools(run_gesture_actions(run_input(w, f, t)), t), t))),
                 f.key))

\* int(DISPLAY_WIDTH * 0.55), the width _pick scales wider images down to;
\* the canvas has the size of the display.
ImportMaxW == (CanvasW * 55) \div 100

\* A step of picker thread i, from the line of _pick it is at. At line 829
\* choice is what the dialog and imread give: None (no file, or one that
\* cannot be read), or <<img>> for an image no wider than ImportMaxW, which
\* resize leaves as it is and cvtColor gives four channels. Line 852 calls
\* push_undo, line 853 blit_image at the centre; what blit_image raises
\* is caught at line 855.
_pick(w, i, choice) ==
    LET th   == w.pickers[i]
        rest == SubSeq(w.pickers, 1, i - 1) \o SubSeq(w.pickers, i + 1, Len(w.pickers))
        w0   == [w EXCEPT !.log = <<>>, !.calls = <<>>]
    IN  CASE th.pc = 829 ->
               IF choice = None THEN [w0 EXCEPT !.pickers = rest]
               ELSE [w0 EXCEPT !.pickers[i] =
                        [pc |-> 852, img |-> <<[choice[1] EXCEPT !.ch = 4]>>]]
          [] th.pc = 852 ->
               [CanvasCall(w0, "picker", "push_undo", push_undo(w0.canvas))
                   EXCEPT !.pickers[i].pc = 853]
          [] th.pc = 853 ->
               LET img == th.img[1]
                   x   == (CanvasW - img.iw) \div 2
                   y   == (CanvasH - img.ih) \div 2
               IN  [CanvasCall(w0, "picker",
                               IF blit_raises(img, x, y) THEN "no_edit" ELSE "blit_image",
                               blit_image(w0.canvas, img, x, y))
                       EXCEPT !.pickers = rest]

\* ------------------------------------------------------------------ callers

\* What the callers of the canvas draw with: points, pens <<colour,
\* thickness>>, and the drags <<p1, p2>> of a shape.
Pts == { <<1, 1>>, <<4, 1>>, <<4, 7>> }
Pens == { <<1, 1>>, <<2, 2>> }
Drags == { << <<1, 1>>, <<4, 1>> >>, << <<4, 1>>, <<4, 7>> >>,
           << <<4, 7>>, <<1, 1>> >>, << <<1, 1>>, <<1, 1>> >> }

\* How many draw calls a run of SpecDraw makes.
MaxDraws == 2

\* How many calls precede the undo/redo scenario of SpecUndo.
MaxPre == 3

\* The scenario makes up to MaxEdits edits: more than the undo stack holds.
MaxEdits == MAX_UNDO_STEPS + 1

\* The edits of the scenario: one of each kind of draw call, and an eraser stroke.
Edits == {"line", "dot", "shape", "blit", "erase"}

ApplyEdit(c, e) ==
    CASE e = "line"  -> draw_line(c, <<1, 1>>, <<5, 1>>, 1, 1, FALSE)
      [] e = "dot"   -> draw_dot(c, <<4, 4>>, 2, 2)
      [] e = "shape" -> draw_shape(c, "rectangle", <<1, 1>>, <<4, 4>>, 2, 1, FALSE)
      [] e = "blit"  -> blit_image(c, CHOOSE i \in Images : i.ch = 4, 3, 3)
      [] e = "erase" -> draw_line(c, <<3, 0>>, <<3, 5>>, 1, 2, TRUE)

ScnInit ==
    [ phase |-> "pre", n |-> 0, u0 |-> <<>>, snaps |-> <<>>, after |-> Blank,
      k |-> 0, ok |-> 0, ret |-> TRUE, last |-> "", before |-> CanvasInit,
      arg |-> None, raised |-> FALSE ]

\* The clock starts when the process has been up for StartTime and the run
\* is followed up to MaxTime; between two calls TimeSteps pass: a frame
\* period or a stall.
StartTime == 1000
MaxTime == 1480
TimeSteps == {80, 320}

\* The camera frames the main loop passes, and what detect_fn makes of
\* frame f: the hands <<f>>, or an exception.
Frames == {1, 2}

\* The raw gestures the classifier reports in SpecDebounce, the time between
\* two frames there, and how long a run of SpecDebounce is followed.
Raws == {NONE, DRAWING, FIST, OPEN_PALM}
DebounceSteps == {20, 40}
DebounceSpan == 480

\* The observer has seen no raw gesture and no change of stable_gesture.
DebInit ==
    [ run_raw |-> None, run_start |-> 0, persisted |-> FALSE, changes |-> 0,
      changed_at |-> None, chg |-> None, frames |-> 0, from |-> NONE ]

\* The positions of the fingertip, in pixels, and no fingertip.
Tips == { None, <<100, 100>>, <<115, 106>>, <<123, 123>>, <<180, 100>> }

\* What finalize() reads of engine s.
Drag(s) ==
    [ state |-> s.state, active_shape |-> s.active_shape, anchor |-> s.anchor,
      current |-> s.current ]

FinInit ==
    [ called |-> FALSE, pre |-> Drag(ShapeInit), ret |-> None, post |-> ShapeInit,
      before |-> ShapeInit, call |-> None ]

\* The finalize() call on engine s that leaves engine t, as fin records it.
Finalized(s, t) ==
    [ called |-> TRUE, pre |-> Drag(s), ret |-> finalize_ret(s), post |-> t,
      before |-> s, call |-> <<"finalize">> ]

\* The observer has seen no frame.
PalmInit ==
    [ frames |-> 0, clear |-> FALSE, hand |-> FALSE, fired |-> 0, began |-> None,
      due |-> 0 ]

\* A new brush, no call made on it: call is <<name, argument>> and pre the
\* thickness before the call.
BrushCallInit ==
    [ b |-> BrushInit, call |-> None, pre |-> DEFAULT_THICKNESS, n |-> 0,
      was |-> BrushInit ]

\* Nothing submitted: put counts the put_frame calls begun; frame, w, res
\* and got are the numbers of the submissions that the frame mailbox, the
\* worker's frame, the stored result and the last read come of (0: none);
\* done is the result of the detection that was stored last, reads counts
\* the get_result calls ended, up to 2.
MailboxInit ==
    [ put |-> 0, frame |-> 0, w |-> 0, res |-> 0, got |-> 0,
      done |-> None, reads |-> 0 ]

\* No update() call made: n counts the calls, t is the time of the last.
UpdateInit ==
    [ n |-> 0, t |-> 0, hands |-> <<>>, r |-> GestureResultInit,
      pre |-> HandGestureStateInit, was |-> <<>> ]

ClassifyInit ==
    [ called |-> FALSE, ret |-> NONE,
      lm |-> [ wrist |-> <<300, 900>>, thumb_ip |-> <<450, 520>>,
               thumb_tip |-> <<500, 500>>, index_pip |-> <<500, 450>>,
               index_tip |-> <<500, 700>>, middle_pip |-> <<550, 500>>,
               middle_tip |-> <<550, 700>>, ring_pip |-> <<600, 500>>,
               ring_tip |-> <<600, 700>>, pinky_pip |-> <<650, 500>>,
               pinky_tip |-> <<650, 700>> ] ]

Init ==
    /\ cv = CanvasInit
    /\ out = {}
    /\ scn = ScnInit
    /\ sh = ShapeInit
    /\ fin = FinInit
    /\ now = StartTime
    /\ gs = HandGestureStateInit
    /\ deb = DebInit
    /\ det = DetectionInit
    /\ app = WorldInit
    /\ ast = StateCallInit
    /\ cls = ClassifyInit
    /\ pal = PalmInit
    /\ br = BrushCallInit
    /\ upd = UpdateInit
    /\ mbx = MailboxInit

\* --- SpecDraw: draw calls and blend()

Count == scn' = [scn EXCEPT !.n = scn.n + 1]

DrawLine ==
    /\ scn.n < MaxDraws
    /\ \E p1 \in Pts \cup {None}, p2 \in Pts, pen \in Pens :
          cv' = draw_line(cv, p1, p2, pen[1], pen[2], FALSE)
    /\ Count /\ UNCHANGED out /\ UNCHANGED notCanvas

DrawDot ==
    /\ scn.n < MaxDraws
    /\ \E p \in Pts, pen \in Pens : cv' = draw_dot(cv, p, pen[1], pen[2])
    /\ Count /\ UNCHANGED out /\ UNCHANGED notCanvas

DrawShape ==
    /\ scn.n < MaxDraws
    /\ \E s \in SHAPES, d \in Drags, pen \in Pens, f \in BOOLEAN :
          cv' = draw_shape(cv, s, d[1], d[2], pen[1], pen[2], f)
    /\ Count /\ UNCHANGED out /\ UNCHANGED notCanvas

BlitImage ==
    /\ scn.n < MaxDraws
    /\ \E img \in Images, p \in Pts : cv' = blit_image(cv, img, p[1], p[2])
    /\ Count /\ UNCHANGED out /\ UNCHANGED notCanvas

Blend ==
    /\ \E same \in BOOLEAN :
          /\ cv' = blend(cv, same)
          /\ out' = blend_out(cv, same)
    /\ UNCHANGED scn /\ UNCHANGED notCanvas

NextDraw == DrawLine \/ DrawDot \/ DrawShape \/ BlitImage \/ Blend

SpecDraw == Init /\ [][NextDraw]_vars

\* --- SpecUndo: a caller that makes up to MaxPre calls of any kind, then edits
\* E1..En, each right after push_undo(), then calls undo() n times and then
\* redo() n times, recording what the calls return.

\* Any call before the scenario.
PreCall ==
    /\ scn.phase = "pre" /\ scn.n < MaxPre
    /\ \/ cv' = push_undo(cv)
       \/ cv' = undo(cv)
       \/ cv' = redo(cv)
       \/ cv' = clear(cv)
       \/ \E e \in Edits : cv' = ApplyEdit(cv, e)
    /\ Count /\ UNCHANGED out /\ UNCHANGED notCanvas

\* The scenario starts: the caller notes the undo stack it starts from.
Start ==
    /\ scn.phase = "pre"
    /\ scn' = [scn EXCEPT !.phase = "edit", !.n = 0, !.u0 = cv.undo]
    /\ UNCHANGED <<cv, out>> /\ UNCHANGED notCanvas

\* push_undo() and one edit.
PushEdit ==
    /\ scn.phase = "edit" /\ scn.n < MaxEdits
    /\ \E e \in Edits :
          /\ cv' = ApplyEdit(push_undo(cv), e)
          /\ scn' = [scn EXCEPT !.n = scn.n + 1,
                                !.snaps = Append(scn.snaps, cv.canvas),
                                !.after = cv'.canvas]
    /\ UNCHANGED out /\ UNCHANGED notCanvas

\* The edits are over; n undo() calls follow.
Rewind ==
    /\ scn.phase = "edit" /\ scn.n >= 1
    /\ scn' = [scn EXCEPT !.phase = "undo", !.k = 0, !.ok = 0]
    /\ UNCHANGED <<cv, out>> /\ UNCHANGED notCanvas

CallUndo ==
    /\ scn.phase = "undo" /\ scn.k < scn.n
    /\ cv' = undo(cv)
    /\ scn' = [scn EXCEPT !.k = scn.k + 1, !.ret = undo_ok(cv),
                          !.ok = scn.ok + (IF undo_ok(cv) THEN 1 ELSE 0)]
    /\ UNCHANGED out /\ UNCHANGED notCanvas

\* n redo() calls follow.
Replay ==
    /\ scn.phase = "undo" /\ scn.k = scn.n
    /\ scn' = [scn EXCEPT !.phase = "redo", !.k = 0, !.ok = 0]
    /\ UNCHANGED <<cv, out>> /\ UNCHANGED notCanvas

CallRedo ==
    /\ scn.phase = "redo" /\ scn.k < scn.n
    /\ cv' = redo(cv)
    /\ scn' = [scn EXCEPT !.k = scn.k + 1, !.ret = redo_ok(cv),
                          !.ok = scn.ok + (IF redo_ok(cv) THEN 1 ELSE 0),
                          !.phase = IF scn.k + 1 = scn.n THEN "done" ELSE "redo"]
    /\ UNCHANGED out /\ UNCHANGED notCanvas

NextUndo == PreCall \/ Start \/ PushEdit \/ Rewind \/ CallUndo \/ Replay \/ CallRedo

SpecUndo == Init /\ [][NextUndo]_vars

\* C1: after edits E1..En, each right after push_undo(), n undo() calls and
\* then n redo() calls leave the raster equal to the raster after En, also
\* when n exceeds the depth of the undo stack.
C1_UndoRedoInverse == scn.phase = "done" => cv.canvas = scn.after

C1_Witness ==
    /\ scn.phase = "done" /\ scn.n > MAX_UNDO_STEPS
    /\ cv.canvas = scn.after /\ scn.after /= Blank
    /\ \A i \in 1..Len(scn.snaps) : scn.snaps[i] /= scn.after

\* The last n elements of s (all of s if it is shorter).
LastN(s, n) == IF Len(s) <= n THEN s ELSE SubSeq(s, Len(s) - n + 1, Len(s))

\* The undo stack the pushes of the scenario should have left.
Pushed == LastN(scn.u0 \o scn.snaps, MAX_UNDO_STEPS)

\* C2: the undo stack never holds more than MAX_UNDO_STEPS snapshots; a push
\* at capacity discards the oldest snapshot and keeps the order of the rest,
\* so the pushes leave the last MAX_UNDO_STEPS snapshots pushed; the undo()
\* calls that follow succeed once per snapshot left, each restoring the next
\* newest, and fail afterwards: after MAX_UNDO_STEPS + 1 pushes from an empty
\* stack, MAX_UNDO_STEPS calls succeed, the last restoring the 2nd snapshot
\* pushed, and one more returns false.
C2_BoundedUndo ==
    /\ Len(cv.undo) <= MAX_UNDO_STEPS
    /\ scn.phase = "edit" => cv.undo = Pushed
    /\ scn.phase = "undo" =>
          /\ scn.ok = Min(scn.k, Len(Pushed))
          /\ scn.ok >= 1 => cv.canvas = Pushed[Len(Pushed) - scn.ok + 1]
          /\ scn.k > Len(Pushed) => ~scn.ret
          /\ (scn.u0 = <<>> /\ scn.n = MAX_UNDO_STEPS + 1 /\ scn.k = scn.n) =>
                scn.ok = MAX_UNDO_STEPS /\ cv.canvas = scn.snaps[2] /\ ~scn.ret

C2_Witness ==
    /\ scn.phase = "undo" /\ scn.u0 = <<>>
    /\ scn.n = MAX_UNDO_STEPS + 1 /\ scn.k = scn.n
    /\ scn.ok = MAX_UNDO_STEPS /\ ~scn.ret
    /\ cv.canvas = scn.snaps[2] /\ scn.snaps[1] /= scn.snaps[2]

\* --- SpecCalls: a caller that has made up to MAX_UNDO_STEPS + 1 edits, each
\* right after push_undo(), and then makes up to MaxCalls calls of any kind;
\* scn.last is the call just made, scn.before the canvas before it and
\* scn.ret what it returned.

MaxCalls == 3

\* The edits the caller starts with, in their order.
EditSeq == <<"line", "dot", "shape", "blit", "erase">>

\* The canvas after the first k of them.
RECURSIVE Prepared(_)
Prepared(k) ==
    IF k = 0 THEN CanvasInit
    ELSE ApplyEdit(push_undo(Prepared(k - 1)), EditSeq[((k - 1) % Len(EditSeq)) + 1])

Prepare ==
    /\ scn.phase = "pre"
    /\ \E k \in 0..(MAX_UNDO_STEPS + 1) : cv' = Prepared(k)
    /\ scn' = [scn EXCEPT !.phase = "calls"]
    /\ UNCHANGED out /\ UNCHANGED notCanvas

\* The calls, by name; an edit goes by its name in Edits.
CanvasCalls == {"push_undo", "undo", "redo", "clear", "blend"} \cup Edits

ApplyCall(c, call) ==
    CASE call = "push_undo" -> push_undo(c)
      [] call = "undo"      -> undo(c)
      [] call = "redo"      -> redo(c)
      [] call = "clear"     -> clear(c)
      [] call = "blend"     -> blend(c, TRUE)
      [] OTHER              -> ApplyEdit(c, call)

Call ==
    /\ scn.phase = "calls" /\ scn.n < MaxCalls
    /\ \E call \in CanvasCalls :
          /\ cv' = ApplyCall(cv, call)
          /\ out' = IF call = "blend" THEN blend_out(cv, TRUE) ELSE out
          /\ scn' = [scn EXCEPT !.n = scn.n + 1, !.last = call, !.before = cv,
                                !.ret = CASE call = "undo" -> undo_ok(cv)
                                          [] call = "redo" -> redo_ok(cv)
                                          [] OTHER -> FALSE]
    /\ UNCHANGED notCanvas

\* The background modes.
BgModes == {"none", "grid", "ruled"}

\* blend() on a frame of another size than the canvas.
BlendResized ==
    /\ scn.phase = "calls" /\ scn.n < MaxCalls
    /\ cv' = blend(cv, FALSE)
    /\ out' = blend_out(cv, FALSE)
    /\ scn' = [scn EXCEPT !.n = scn.n + 1, !.last = "blend", !.before = cv,
                          !.ret = FALSE]
    /\ UNCHANGED notCanvas

BlendWithPreview ==
    /\ scn.phase = "calls" /\ scn.n < MaxCalls
    /\ \E same \in BOOLEAN, shape \in SHAPES, d \in Drags :
          /\ cv' = blend_with_preview(cv, same, shape, d[1], d[2], 3, 1)
          /\ out' = blend_out(cv, same)
    /\ scn' = [scn EXCEPT !.n = scn.n + 1, !.last = "blend_with_preview",
                          !.before = cv, !.ret = FALSE]
    /\ UNCHANGED notCanvas

SetBgMode ==
    /\ scn.phase = "calls" /\ scn.n < MaxCalls
    /\ \E mode \in BgModes : cv' = set_bg_mode(cv, mode)
    /\ scn' = [scn EXCEPT !.n = scn.n + 1, !.last = "set_bg_mode", !.before = cv,
                          !.ret = FALSE]
    /\ UNCHANGED out /\ UNCHANGED notCanvas

NextCalls == Prepare \/ Call \/ BlendResized \/ BlendWithPreview \/ SetBgMode

SpecCalls == Init /\ [][NextCalls]_vars

\* C14: a draw_line without eraser, a draw_dot, a draw_shape or a blit_image
\* on a canvas whose dirty box is marked stale leaves it marked stale (until
\* blend() recomputes the box from the raster).
C14_StaleUntilRecompute ==
    [][(cv.bbox_stale /\ scn'.last \in {"line", "dot", "shape", "blit"})
          => cv'.bbox_stale]_vars

\* C15: clear() pushes the raster as an undo snapshot (the redo stack is
\* emptied, the oldest snapshot is dropped at capacity), then leaves the
\* raster blank with no dirty box, not stale; undo() right after it restores
\* the raster as it was before clear().
C15_ClearPushesThenBlanks ==
    scn.last = "clear" =>
        /\ cv.undo = LastN(Append(scn.before.undo, scn.before.canvas), MAX_UNDO_STEPS)
        /\ cv.redo = <<>>
        /\ cv.canvas = Blank /\ cv.bbox = None /\ ~cv.bbox_stale
        /\ undo_ok(cv) /\ undo(cv).canvas = scn.before.canvas

\* A clear() of a drawn raster at capacity, the snapshots differing.
C15_Witness ==
    /\ scn.last = "clear" /\ Len(scn.before.undo) = MAX_UNDO_STEPS
    /\ scn.before.canvas /= Blank /\ scn.before.undo[1] /= scn.before.undo[2]
    /\ cv.undo[1] = scn.before.undo[2] /\ cv.undo[MAX_UNDO_STEPS] = scn.before.canvas

\* C16: undo() on an empty undo stack returns false and leaves the canvas
\* (raster, stacks, dirty-box cache) as it was; otherwise it returns true,
\* the newest undo snapshot becomes the raster, the raster before the call
\* goes on top of the redo stack, the number of snapshots in both stacks is
\* kept, and the dirty box is marked stale. redo() does the same with the
\* stacks exchanged.
C16_UndoRedoMoveOne ==
    LET b == scn.before
    IN  /\ scn.last = "undo" =>
              IF b.undo = <<>> THEN ~scn.ret /\ cv = b
              ELSE /\ scn.ret /\ cv.bbox_stale
                   /\ cv.canvas = Last(b.undo) /\ cv.undo = Front(b.undo)
                   /\ cv.redo = Append(b.redo, b.canvas)
                   /\ Len(cv.undo) + Len(cv.redo) = Len(b.undo) + Len(b.redo)
        /\ scn.last = "redo" =>
              IF b.redo = <<>> THEN ~scn.ret /\ cv = b
              ELSE /\ scn.ret /\ cv.bbox_stale
                   /\ cv.canvas = Last(b.redo) /\ cv.redo = Front(b.redo)
                   /\ cv.undo = Append(b.undo, b.canvas)
                   /\ Len(cv.undo) + Len(cv.redo) = Len(b.undo) + Len(b.redo)

\* An undo() with snapshots on both stacks, on a canvas whose box was exact.
C16_Witness ==
    /\ scn.last = "undo" /\ scn.ret
    /\ scn.before.redo /= <<>> /\ Len(scn.before.undo) >= 2
    /\ ~scn.before.bbox_stale /\ cv.canvas /= scn.before.canvas

\* C27: blend(), blend_with_preview() and set_bg_mode() change neither the
\* raster nor the undo and redo stacks, in every background mode and for
\* every preview shape; the two blends may refresh the dirty-box cache and
\* nothing else, set_bg_mode changes the background mode and nothing else.
C27_BlendKeepsRaster ==
    LET b == scn.before
    IN  /\ scn.last \in {"blend", "blend_with_preview", "set_bg_mode"} =>
              cv.canvas = b.canvas /\ cv.undo = b.undo /\ cv.redo = b.redo
        /\ scn.last \in {"blend", "blend_with_preview"} => cv.bg_mode = b.bg_mode
        /\ scn.last = "set_bg_mode" =>
              cv.bbox = b.bbox /\ cv.bbox_stale = b.bbox_stale

\* A blend_with_preview over a grid background that refreshes a stale dirty
\* box of a drawn raster with snapshots on both stacks.
C27_Witness ==
    /\ scn.last = "blend_with_preview" /\ cv.bg_mode = "grid"
    /\ scn.before.bbox_stale /\ ~cv.bbox_stale /\ cv.bbox /= scn.before.bbox
    /\ cv.canvas /= Blank /\ cv.undo /= <<>> /\ cv.redo /= <<>>

\* --- SpecBlit: a caller of blit_image with offsets of every kind

\* The caller makes up to MaxBlits calls; the offsets lie left of and above
\* the canvas, inside it, on its last column and row, and past them.
MaxBlits == 2
BlitOffsets ==
    {-CanvasW - 1, 3 - CanvasW, -2, -1, 0, 3, CanvasW - 1, CanvasW, CanvasW + 1}

\* scn.arg is <<img, x, y>> of the call and scn.raised whether it raised.
BlitAt ==
    /\ scn.n < MaxBlits
    /\ \E img \in Images, x \in BlitOffsets, y \in BlitOffsets :
          /\ cv' = blit_image(cv, img, x, y)
          /\ scn' = [scn EXCEPT !.n = scn.n + 1, !.last = "blit_at", !.before = cv,
                                !.arg = <<img, x, y>>,
                                !.raised = blit_raises(img, x, y)]
    /\ UNCHANGED out /\ UNCHANGED notCanvas

NextBlit == BlitAt

SpecBlit == Init /\ [][NextBlit]_vars

\* The pixels of the canvas under an image of size iw x ih put at (x, y).
Overlap(iw, ih, x, y) ==
    { p \in Pixels : /\ x <= p[1] /\ p[1] < x + iw
                     /\ y <= p[2] /\ p[2] < y + ih }

\* C26: blit_image(img, x, y) raises for no image and no offset, negative
\* offsets and offsets past the right or bottom edge included; it changes
\* pixels of the raster only where the rectangle of the image at (x, y)
\* meets the canvas, and after it the dirty box covers that part.
C26_BlitClipsToCanvas ==
    scn.last = "blit_at" =>
        LET img == scn.arg[1]
            part == Overlap(img.iw, img.ih, scn.arg[2], scn.arg[3])
        IN  /\ ~scn.raised
            /\ \A p \in Pixels :
                  cv.canvas[Idx(p)] /= scn.before.canvas[Idx(p)] => p \in part
            /\ part /= {} =>
                  /\ cv.bbox /= None
                  /\ \A p \in part : InBox(p, cv.bbox)

\* --- SpecShape: a caller of the shape engine, and the clock

Tick ==
    /\ \E d \in TimeSteps : now + d <= MaxTime /\ now' = now + d
    /\ UNCHANGED <<sh, fin>> /\ UNCHANGED notShape

ShUpdate ==
    /\ \E tip \in Tips, drawing_active \in BOOLEAN :
          /\ EmaExact(sh, tip)
          /\ sh' = update(sh, tip, drawing_active, now)
    /\ fin' = FinInit /\ UNCHANGED now /\ UNCHANGED notShape

ShFinalize ==
    /\ sh' = finalize(sh)
    /\ fin' = Finalized(sh, sh')
    /\ UNCHANGED now /\ UNCHANGED notShape

ShCancel ==
    /\ sh' = cancel(sh)
    /\ fin' = FinInit /\ UNCHANGED now /\ UNCHANGED notShape

ShSetShape ==
    /\ \E shape \in {"line", "circle", "star"} : sh' = set_shape(sh, shape)
    /\ fin' = FinInit /\ UNCHANGED now /\ UNCHANGED notShape

NextShape == Tick \/ ShUpdate \/ ShFinalize \/ ShCancel \/ ShSetShape

SpecShape == Init /\ [][NextShape]_vars

\* C6: in every state of the shape engine reached by update, finalize, cancel
\* and set_shape calls, anchor and current are null when state is IDLE or
\* ANCHORING; they are non-null only while state is DRAGGING.
C6_PointsOnlyWhileDragging ==
    /\ sh.state \in {IDLE, ANCHORING} => sh.anchor = None /\ sh.current = None
    /\ (sh.anchor /= None \/ sh.current /= None) => sh.state = DRAGGING

C6_Witness ==
    /\ sh.state = IDLE /\ sh.anchor = None /\ sh.current = None
    /\ fin.called /\ fin.pre.state = DRAGGING /\ fin.pre.anchor /= fin.pre.current
    /\ fin.post = sh

\* The drag of engine s is below the minimum size.
BelowMinSize(s) ==
    LET dx == Abs(s.anchor[1] - s.current[1])
        dy == Abs(s.anchor[2] - s.current[2])
    IN  IF s.active_shape = "line"
        THEN dx * dx + dy * dy < SHAPE_MIN_SIZE_PX * SHAPE_MIN_SIZE_PX
        ELSE dx < SHAPE_MIN_SIZE_PX /\ dy < SHAPE_MIN_SIZE_PX

\* C7: finalize() called in DRAGGING on a drag below the minimum size (for a
\* line the Euclidean distance of anchor and current, for every other shape
\* the larger of |dx| and |dy|, below SHAPE_MIN_SIZE_PX) returns null and
\* leaves the engine IDLE with anchor, current and the rest of the session
\* null; so it does for anchor (100,100) and current (105,102).
C7_SmallDragRejected ==
    (fin.called /\ fin.pre.state = DRAGGING) =>
        /\ BelowMinSize(fin.pre) =>
              /\ fin.ret = None
              /\ fin.post = [ShapeInit EXCEPT !.active_shape = fin.pre.active_shape]
        /\ (fin.pre.anchor = <<100, 100>> /\ fin.pre.current = <<105, 102>>) =>
              fin.ret = None /\ fin.post.state = IDLE

C7_Witness ==
    /\ fin.called /\ fin.pre.state = DRAGGING
    /\ fin.pre.anchor = <<100, 100>> /\ fin.pre.current = <<105, 102>>
    /\ fin.ret = None /\ fin.post.state = IDLE
    /\ fin.post.anchor = None /\ fin.post.current = None

\* C17: finalize() returns a result exactly when the session is DRAGGING with
\* anchor and current set and the drag is not below the minimum size; the
\* result is then (active_shape, anchor, current) as they were before the
\* call and the session is IDLE with every field of the drag null; called in
\* IDLE or ANCHORING it returns null and leaves every field of the session as
\* it was.
C17_FinalizeCommitsOnlyValidDrag ==
    fin.called =>
        LET b == fin.before
            commits == /\ b.state = DRAGGING /\ b.anchor /= None /\ b.current /= None
                       /\ ~BelowMinSize(b)
        IN  /\ (fin.ret /= None) <=> commits
            /\ commits =>
                  /\ fin.ret = <<b.active_shape, b.anchor, b.current>>
                  /\ fin.post = [ShapeInit EXCEPT !.active_shape = b.active_shape]
            /\ b.state \in {IDLE, ANCHORING} => fin.ret = None /\ fin.post = b

\* A finalize() that committed a drag of a shape other than the default.
C17_Witness ==
    /\ fin.called /\ fin.ret /= None /\ fin.before.state = DRAGGING
    /\ fin.before.active_shape /= ShapeInit.active_shape
    /\ fin.before.ema_tip /= None
    /\ fin.ret[2] /= fin.ret[3] /\ sh.state = IDLE /\ sh.anchor = None

\* --- SpecDrag: the caller of the shape engine, its calls observed

\* fin.call is the last call with its arguments and fin.before the session
\* before it.
DragTips == { None, <<100, 100>>, <<180, 100>> }

DragUpdate ==
    /\ \E tip \in DragTips, drawing_active \in BOOLEAN :
          /\ EmaExact(sh, tip)
          /\ sh' = update(sh, tip, drawing_active, now)
          /\ fin' = [FinInit EXCEPT !.call = <<"update", tip, drawing_active>>,
                                    !.before = sh]
    /\ UNCHANGED now /\ UNCHANGED notShape

DragCancel ==
    /\ sh' = cancel(sh)
    /\ fin' = [FinInit EXCEPT !.call = <<"cancel">>, !.before = sh]
    /\ UNCHANGED now /\ UNCHANGED notShape

DragSetShape ==
    /\ \E shape \in {"line", "circle", "star"} :
          /\ sh' = set_shape(sh, shape)
          /\ fin' = [FinInit EXCEPT !.call = <<"set_shape", shape>>, !.before = sh]
    /\ UNCHANGED now /\ UNCHANGED notShape

NextDrag == Tick \/ DragUpdate \/ ShFinalize \/ DragCancel \/ DragSetShape

SpecDrag == Init /\ [][NextDrag]_vars

\* The last call was an update with the drawing signal lost: drawing_active
\* false or no fingertip.
LostUpdate ==
    /\ fin.call /= None /\ fin.call[1] = "update"
    /\ (fin.call[2] = None \/ ~fin.call[3])

\* C30: an update with the drawing signal lost takes ANCHORING to IDLE and
\* leaves DRAGGING in DRAGGING with anchor and current as they were; the
\* session leaves DRAGGING only by finalize(), cancel() or set_shape() with
\* a name of SHAPES, never by update().
C30_LostSignalKeepsDrag ==
    LET b == fin.before
    IN  /\ (LostUpdate /\ b.state = ANCHORING) => sh.state = IDLE
        /\ (LostUpdate /\ b.state = DRAGGING) =>
              sh.state = DRAGGING /\ sh.anchor = b.anchor /\ sh.current = b.current
        /\ (fin.call /= None /\ b.state = DRAGGING /\ sh.state /= DRAGGING) =>
              \/ fin.call[1] \in {"finalize", "cancel"}
              \/ fin.call[1] = "set_shape" /\ fin.call[2] \in SHAPES

\* An update without the drawing signal, its fingertip far from the end of
\* a drag that has moved: the drag stays.
C30_Witness ==
    /\ LostUpdate /\ fin.call[2] /= None
    /\ fin.before.state = DRAGGING /\ fin.before.anchor /= fin.before.current
    /\ DistAtLeast(fin.before.current, fin.call[2], SHAPE_MIN_MOVE_PX)
    /\ sh.state = DRAGGING /\ sh.current = fin.before.current

\* Point p lies within the still-radius of point q.
Still(p, q) ==
    /\ Abs(p[1] - q[1]) <= SHAPE_STILL_RADIUS_PX
    /\ Abs(p[2] - q[2]) <= SHAPE_STILL_RADIUS_PX

\* The step is an update(tip, TRUE) with a fingertip on an ANCHORING session.
AnchoringUpdate ==
    /\ now' = now /\ sh.state = ANCHORING
    /\ fin'.call /= None /\ fin'.call[1] = "update" /\ fin'.before = sh
    /\ fin'.call[2] /= None /\ fin'.call[3]

\* C31: a session goes from ANCHORING to DRAGGING only by an update with
\* drawing active whose smoothed point lies within the still-radius of the
\* candidate, SHAPE_HOLD_SECONDS or more after the hold timer was last
\* started; the anchor locked is the candidate and current starts as the
\* anchor. An update whose smoothed point lies beyond the still-radius
\* restarts the timer at that point and does not lock.
C31_LockOnlyAfterStillHold ==
    [][ /\ (sh.state = ANCHORING /\ sh'.state = DRAGGING) =>
              /\ AnchoringUpdate
              /\ Still(StableTip(sh'), sh.anchor_cand)
              /\ now - sh.hold_start >= SHAPE_HOLD_SECONDS
              /\ sh'.anchor = sh.anchor_cand /\ sh'.current = sh'.anchor
        /\ (AnchoringUpdate /\ ~Still(StableTip(sh'), sh.anchor_cand)) =>
              /\ sh'.state = ANCHORING
              /\ sh'.hold_start = now /\ sh'.anchor_cand = StableTip(sh')
      ]_vars

\* A lock by an update whose smoothed point is in the still-radius of the
\* candidate and not on it, the candidate being that of a restarted timer.
C31_Witness ==
    /\ fin.call /= None /\ fin.call[1] = "update"
    /\ fin.before.state = ANCHORING /\ sh.state = DRAGGING
    /\ StableTip(sh) /= fin.before.anchor_cand
    /\ sh.anchor = fin.before.anchor_cand /\ sh.current = sh.anchor
    /\ sh.anchor /= <<100, 100>>

\* --- SpecClassify: _classify on the landmarks of one hand

\* The hand of landmarks lm as the program reads it: the fingers _count finds
\* extended, the distance of thumb tip and index tip (its integer part; the
\* threshold is an integer), the pixel of the index tip.
HandResult(lm) ==
    [ n |-> _count(lm), pd |-> ISqrt(PinchDist2(lm)), tip |-> Pixel(lm.index_tip),
      z |-> 0 ]

\* Thumb tips, index tips at distances 69, 70, more than 70 and less than 70
\* of one of them, and rows of the other landmarks above and below.
ThumbTips == { <<400, 500>>, <<500, 500>> }
IndexTips == { <<500, 431>>, <<500, 430>>, <<442, 540>>, <<450, 548>>, <<500, 700>> }
WristXs == { 300, 600 }
PipRows == { 450, 600 }
TipRows == { 300, 700 }

LandmarkSets ==
    { [ wrist |-> <<wx, 900>>, thumb_ip |-> <<450, 520>>, thumb_tip |-> tt,
        index_pip |-> <<500, ip>>, index_tip |-> it,
        middle_pip |-> <<550, 500>>, middle_tip |-> <<550, mt>>,
        ring_pip |-> <<600, 500>>, ring_tip |-> <<600, rt>>,
        pinky_pip |-> <<650, 500>>, pinky_tip |-> <<650, pt>> ] :
      wx \in WristXs, tt \in ThumbTips, it \in IndexTips, ip \in PipRows,
      mt \in TipRows, rt \in TipRows, pt \in TipRows }

Classify ==
    /\ \E lm \in LandmarkSets :
          cls' = [ called |-> TRUE, lm |-> lm, ret |-> _classify(HandResult(lm)) ]
    /\ UNCHANGED notClassify

NextClassify == Classify

SpecClassify == Init /\ [][NextClassify]_vars

\* The gesture of a number of extended fingers.
CountGesture(n) ==
    CASE n = 0 -> FIST [] n = 1 -> DRAWING [] n = 2 -> TWO [] n = 3 -> THREE
      [] n = 4 -> FOUR [] n = 5 -> OPEN_PALM

\* C18: for landmarks with thumb tip and index tip closer than
\* PINCH_THRESHOLD the classifier returns PINCH, whatever the number of
\* extended fingers; for landmarks at or above the threshold it returns the
\* gesture of the number of extended fingers, which is never PINCH; what it
\* returns is a function of the landmarks alone.
C18_PinchBeforeCount ==
    cls.called =>
        IF PinchDist2(cls.lm) < PINCH_THRESHOLD * PINCH_THRESHOLD
        THEN cls.ret = PINCH
        ELSE cls.ret = CountGesture(_count(cls.lm)) /\ cls.ret /= PINCH

\* A pinch of a hand with no finger extended, at distance 69 and a bit.
C18_Witness ==
    /\ cls.called /\ cls.ret = PINCH /\ _count(cls.lm) = 0
    /\ PinchDist2(cls.lm) > 69 * 69

\* --- SpecDebounce: the frames of the primary hand, as _debounce sees them

\* What the observer notes of a frame at time t with raw gesture raw, in
\* which stable_gesture goes from s0 to s1: the run of equal raw gestures
\* (a frame without a hand carries no raw gesture and ends no run), whether
\* some run has lasted its dwell, and the change of stable_gesture, if any,
\* with the time the raw gesture had lasted and the time since the change
\* before; the frames of the run so far, and stable_gesture as the run
\* found it.
Observed(d, raw, t, s0, s1) ==
    LET began == IF <<raw>> = d.run_raw THEN d.run_start ELSE t
    IN  [ frames |-> IF <<raw>> = d.run_raw THEN d.frames + 1 ELSE 1,
          from |-> IF <<raw>> = d.run_raw THEN d.from ELSE s0,
          run_raw |-> <<raw>>,
          run_start |-> began,
          persisted |-> d.persisted \/ (t - began >=
                            (IF raw \in {DRAWING, FIST}
                             THEN (DEBOUNCE_DELAY * 6) \div 10 ELSE DEBOUNCE_DELAY)),
          changes |-> d.changes + (IF s1 /= s0 THEN 1 ELSE 0),
          changed_at |-> IF s1 /= s0 THEN <<t>> ELSE d.changed_at,
          chg |-> IF s1 = s0 THEN None
                  ELSE << [ to |-> s1, lasted |-> t - began,
                            gap |-> IF d.changed_at = None THEN None
                                    ELSE <<t - d.changed_at[1]>> ] >> ]

\* A frame with a hand: update() calls _debounce with the raw gesture.
HandFrame ==
    /\ \E d \in DebounceSteps, raw \in Raws :
          /\ now + d <= StartTime + DebounceSpan
          /\ now' = now + d
          /\ gs' = _debounce(gs, raw, now')
          /\ deb' = Observed(deb, raw, now', gs.stable_gesture, gs'.stable_gesture)
    /\ UNCHANGED notGesture

\* A frame without a hand: update() returns before _debounce.
NoHandFrame ==
    /\ \E d \in DebounceSteps :
          /\ now + d <= StartTime + DebounceSpan
          /\ now' = now + d
    /\ deb' = [deb EXCEPT !.chg = None]
    /\ UNCHANGED gs /\ UNCHANGED notGesture

NextDebounce == HandFrame \/ NoHandFrame

SpecDebounce == Init /\ [][NextDebounce]_vars

\* The dwell of gesture g.
Dwell(g) == IF g \in {DRAWING, FIST} THEN (DEBOUNCE_DELAY * 6) \div 10 ELSE DEBOUNCE_DELAY

\* C5: while the raw gestures of the primary hand oscillate faster than the
\* dwell (no raw gesture has lasted its dwell: DEBOUNCE_DELAY, times 0.6 for
\* DRAWING and FIST), stable_gesture does not change; a change of
\* stable_gesture adopts a raw gesture that has lasted its dwell, and comes
\* no sooner than that dwell after the change before it.
C5_Debounced ==
    /\ ~deb.persisted => deb.changes = 0 /\ gs.stable_gesture = NONE
    /\ deb.chg /= None =>
          /\ deb.chg[1].to = gs.raw_gesture
          /\ deb.chg[1].lasted >= Dwell(deb.chg[1].to)
          /\ deb.chg[1].gap /= None => deb.chg[1].gap[1] >= Dwell(deb.chg[1].to)

C5_Witness ==
    /\ deb.chg /= None /\ deb.changes >= 2
    /\ deb.chg[1].to = DRAWING /\ deb.chg[1].lasted >= Dwell(DRAWING)
    /\ deb.chg[1].gap /= None /\ deb.chg[1].gap[1] < DEBOUNCE_DELAY

\* --- SpecPalm: the frames of the gesture engine, as the palm hold sees them

\* A run is followed for MaxPalmFrames frames, PalmSteps apart.
MaxPalmFrames == 8
PalmSteps == {160, 960}

\* What a frame shows: no hand, an open palm, one finger.
PalmHands ==
    { <<>>,
      << [ n |-> 5, pd |-> 200, tip |-> <<100, 100>>, z |-> 0 ] >>,
      << [ n |-> 1, pd |-> 200, tip |-> <<100, 100>>, z |-> 0 ] >> }

\* What the observer notes of a frame at time t with hands, in which update
\* takes the state of the primary hand from st0 to u.st and returns u.r: the
\* clear flag, whether the frame had a hand, and of the current run of
\* frames with stable_gesture OPEN_PALM the time of its first frame, the
\* number of clear flags set in it, and the number of its frames with a hand
\* at which the hold had lasted CLEAR_HOLD_DURATION.
Watched(w, st0, u, hands, t) ==
    LET in_run == u.st.stable_gesture = OPEN_PALM
        same == in_run /\ st0.stable_gesture = OPEN_PALM
        began == IF same THEN w.began ELSE IF in_run THEN <<t>> ELSE None
    IN  [ frames |-> w.frames + 1,
          clear |-> u.r.clear,
          hand |-> hands /= <<>>,
          began |-> began,
          fired |-> IF ~in_run THEN 0
                    ELSE (IF same THEN w.fired ELSE 0) + (IF u.r.clear THEN 1 ELSE 0),
          due |-> IF ~in_run THEN 0
                  ELSE (IF same THEN w.due ELSE 0)
                       + (IF hands /= <<>> /\ t - began[1] >= CLEAR_HOLD_DURATION
                          THEN 1 ELSE 0) ]

PalmFrame ==
    /\ \E d \in PalmSteps, hands \in PalmHands :
          /\ now' = now + d
          /\ gs' = gesture_update(gs, hands, now').st
          /\ pal' = Watched(pal, gs, gesture_update(gs, hands, now'), hands, now')
    /\ pal.frames < MaxPalmFrames
    /\ UNCHANGED notPalm

NextPalm == PalmFrame

SpecPalm == Init /\ [][NextPalm]_vars

\* C19: in a run of frames over which stable_gesture of the primary hand
\* stays OPEN_PALM, the clear flag is set in at most one frame: the first
\* frame with a hand at which the hold has lasted CLEAR_HOLD_DURATION since
\* the run began. A frame outside such a run sets no clear flag, so the flag
\* comes again only in a later run.
C19_ClearOncePerHold ==
    /\ pal.fired <= 1
    /\ pal.clear =>
          /\ gs.stable_gesture = OPEN_PALM /\ pal.hand /\ pal.due = 1
          /\ now - pal.began[1] >= CLEAR_HOLD_DURATION
    /\ (gs.stable_gesture = OPEN_PALM /\ pal.hand /\ pal.due = 1) => pal.clear

\* A frame with the palm still up after the flag was set in this run.
C19_Witness ==
    /\ gs.stable_gesture = OPEN_PALM /\ pal.hand /\ ~pal.clear
    /\ pal.fired = 1 /\ pal.due >= 2 /\ gs.clear_fired

\* --- SpecFps: the frames of the primary hand at 30 frames a second

\* A frame comes 1/30 s after the one before, which in milliseconds is 33 or
\* 34; a run is followed for FpsSpan milliseconds, which is 7 frames.
FpsSteps == {33, 34}
FpsSpan == 238

FpsFrame ==
    /\ \E d \in FpsSteps, raw \in Raws :
          /\ now + d <= StartTime + FpsSpan
          /\ now' = now + d
          /\ gs' = _debounce(gs, raw, now')
          /\ deb' = Observed(deb, raw, now', gs.stable_gesture, gs'.stable_gesture)
    /\ UNCHANGED notGesture

NextFps == FpsFrame

SpecFps == Init /\ [][NextFps]_vars

\* C23: with frames 1/30 s apart, from the 4th frame in a row with raw
\* gesture DRAWING on, the run having found stable_gesture NONE,
\* stable_gesture is DRAWING.
C23_DrawingStableByFrame4 ==
    (deb.run_raw = <<DRAWING>> /\ deb.from = NONE /\ deb.frames >= 4) =>
        gs.stable_gesture = DRAWING

\* The 5th frame of such a run, the frames 33 ms apart.
C23_Witness ==
    /\ deb.run_raw = <<DRAWING>> /\ deb.from = NONE /\ deb.frames = 5
    /\ now - deb.run_start = 4 * 33 /\ gs.stable_gesture = DRAWING
    /\ gs.last_change = deb.run_start

\* --- The frame loop: what a frame brings

\* The frames of the specifications below come FramePeriod apart, and a run
\* is followed for MaxFrames frames past the onboarding screen, with up to
\* MaxPickers picker threads at a time.
FramePeriod == 160
MaxFrames == 6
MaxPickers == 1

\* A frame's inputs, the text of a voice command, and a frame's hands: one
\* hand with n fingers up, its thumb away from the index tip, the index tip
\* at tip and at depth z, or two hands.
Input(text, hands, key) == [ done |-> TRUE, text |-> text, hands |-> hands, key |-> key ]
Say(type) == << [ type |-> type ] >>
SayShape(shape) == << [ type |-> "DRAW_SHAPE", payload |-> [ shape |-> shape ] ] >>
Hand(n, tip, z) == [ n |-> n, pd |-> 200, tip |-> tip, z |-> z ]

TipA == <<100, 100>>
TipB == <<140, 100>>

\* The fingertip on the toolbar's clear button.
TipClear == <<900, 30>>

\* What a session brings while it is not paused: shape mode, the drawing
\* hand still and moved, and every request for a pause (voice stop and
\* pause, the fist, two fists, the hand moving away from the camera).
SessionInputs ==
    { Input(SayShape("circle"), <<Hand(1, TipA, 0)>>, ""),
      Input(<<>>, <<Hand(1, TipA, 0)>>, ""),
      Input(<<>>, <<Hand(1, TipB, 0)>>, ""),
      Input(<<>>, <<Hand(1, TipA, 100)>>, ""),
      Input(<<>>, <<Hand(0, TipA, 0)>>, ""),
      Input(<<>>, <<Hand(0, TipA, 0), Hand(0, TipB, 0)>>, ""),
      Input(Say("PAUSE"), <<>>, ""),
      Input(Say("STOP"), <<Hand(1, TipA, 0)>>, "") }

\* What is tried on a paused program.
PausedInputs ==
    { Input(<<>>, <<>>, ""),
      Input(<<>>, <<Hand(1, TipA, 0)>>, ""),
      Input(<<>>, <<Hand(1, TipA, 100)>>, ""),
      Input(<<>>, <<Hand(1, TipClear, 0)>>, ""),
      Input(<<>>, <<Hand(0, TipA, 0)>>, ""),
      Input(<<>>, <<Hand(0, TipA, 0), Hand(0, TipB, 0)>>, ""),
      Input(<<>>, <<Hand(5, TipA, 0), Hand(5, TipB, 0)>>, ""),
      Input(SayShape("circle"), <<Hand(1, TipA, 0)>>, ""),
      Input(Say("FREE_DRAW"), <<Hand(1, TipA, 0)>>, ""),
      Input(Say("PAUSE"), <<>>, ""),
      Input(Say("STOP"), <<>>, ""),
      Input(Say("RESUME"), <<Hand(1, TipA, 0)>>, ""),
      Input(<<>>, <<Hand(1, TipA, 0)>>, "ESC"),
      Input(<<>>, <<Hand(1, TipA, 0)>>, "u") }

\* What the onboarding screen brings: it is done or not, and the q key.
OnboardingInputs ==
    { [Input(<<>>, <<>>, key) EXCEPT !.done = done] :
          done \in BOOLEAN, key \in {"", "q"} }

\* A frame of the loop with inputs f; the loop ends when a frame has set
\* quit. The clock of the run starts when the onboarding screen is done.
FrameAfter(f, d) ==
    /\ ~app.quit
    /\ now' = IF app.onboarding_done THEN now + d ELSE now
    /\ app' = run_frame(app, f, now')
    /\ app'.exact
    /\ Len(app'.pickers) <= MaxPickers
    /\ app'.slides.dialogs <= MaxPickers
    /\ UNCHANGED notApp

Frame(f) == FrameAfter(f, FramePeriod)

\* --- SpecPause: the frame loop through pauses

\* What the frame of world w brings.
PauseInputs(w) ==
    IF ~w.onboarding_done THEN OnboardingInputs
    ELSE IF w.state.drawing_state = DrawingState.PAUSED THEN PausedInputs
    ELSE SessionInputs

PauseFrame ==
    /\ app.frames < MaxFrames
    /\ \E f \in PauseInputs(app) : Frame(f)

NextPause == PauseFrame

SpecPause == Init /\ [][NextPause]_vars

\* C4: while drawing_state is PAUSED, no transition to another state is made
\* but by an explicit resume (the voice resume command, or the ESC key): a
\* frame that starts PAUSED and carries neither ends PAUSED, whatever else
\* it carries.
C4_PausedIsSticky ==
    /\ \A i \in 1..Len(app.log) :
          app.log[i][1] = DrawingState.PAUSED =>
              app.log[i][3] \in {"voice start", "keyboard escape"}
    /\ (app.pre = DrawingState.PAUSED /\ ~app.resume) =>
          app.state.drawing_state = DrawingState.PAUSED

C4_Witness ==
    /\ app.pre = DrawingState.PAUSED /\ ~app.resume
    /\ app.state.drawing_state = DrawingState.PAUSED
    /\ app.state.shape_mode /\ app.gesture.stable_gesture = DRAWING
    /\ app.state.tracking_active /\ app.shapes.ema_tip /= None


\* C21: a frame in which the depth guard trips (the index tip further than
\* DEPTH_THRESHOLD behind the depth at the start of the stroke, the state not
\* PAUSED) does what a pause request does: a valid shape preview is drawn on
\* the canvas, the stroke is halted, the state is PAUSED and tracking_active
\* is true.
C21_DepthTripCommitsAndPauses ==
    app.tripped /= None =>
        /\ app.tripped[1] /= None =>
              \E i \in 1..Len(app.calls) : app.calls[i][2] = "draw_shape"
        /\ ~app.state.drawing_active /\ app.state.prev_point = None
        /\ ~app.stroke_started
        /\ app.state.drawing_state = DrawingState.PAUSED
        /\ app.state.tracking_active


\* --- SpecResume: the frame loop with resumes in every state

\* A run of SpecResume is followed for MaxResumeFrames frames.
MaxResumeFrames == 5

\* What a session brings, paused or not: the drawing hand still and moved,
\* the fist, the voice stop, and both resumes.
ResumeInputs ==
    { Input(<<>>, <<Hand(1, TipA, 0)>>, ""),
      Input(<<>>, <<Hand(1, TipB, 0)>>, ""),
      Input(<<>>, <<Hand(0, TipA, 0)>>, ""),
      Input(Say("STOP"), <<Hand(1, TipA, 0)>>, ""),
      Input(Say("RESUME"), <<Hand(1, TipA, 0)>>, ""),
      Input(<<>>, <<Hand(1, TipA, 0)>>, "ESC") }

ResumeInputsOf(w) == IF ~w.onboarding_done THEN OnboardingInputs ELSE ResumeInputs

ResumeFrame ==
    /\ app.frames < MaxResumeFrames
    /\ \E f \in ResumeInputsOf(app) : Frame(f)

NextResume == ResumeFrame

SpecResume == Init /\ [][NextResume]_vars

\* C22: when _resume_from_pause returns, drawing_state is ARMED,
\* tracking_active is true, force_stop is false and no stroke is active
\* (drawing_active false, prev_point null); the voice resume command calls
\* it in every state, the ESC key in PAUSED, and the ESC key being the last
\* the frame handles, the frame ends in that state.
C22_ResumeRearms ==
    /\ app.resumed /= None =>
          /\ app.resumed[1].drawing_state = DrawingState.ARMED
          /\ app.resumed[1].tracking_active /\ ~app.resumed[1].force_stop
          /\ ~app.resumed[1].drawing_active /\ app.resumed[1].prev_point = None
    /\ (app.resumed /= None /\ app.resumed[1].reason = "keyboard escape") =>
          /\ app.state.drawing_state = DrawingState.ARMED
          /\ app.state.tracking_active /\ ~app.state.force_stop
          /\ ~app.state.drawing_active /\ app.state.prev_point = None
    /\ (app.resume /\ app.pre = DrawingState.PAUSED) => app.resumed /= None

\* A voice resume in the middle of a stroke: the frame goes on to draw.
C22_Witness ==
    /\ app.resumed /= None /\ app.resumed[1].reason = "voice start"
    /\ app.pre = DrawingState.DRAWING
    /\ app.resumed[1].drawing_state = DrawingState.ARMED
    /\ app.state.drawing_active

\* C39: at the end of every frame force_stop is true exactly when
\* drawing_state is PAUSED, and tracking_active is false only when it is
\* PAUSED; a frame that pauses the program without disable_tracking (by the
\* fist, two fists or the depth guard) ends with tracking_active true, so
\* that the frames of the paused program go on reading the hands.
C39_StopFlagsFollowPause ==
    /\ [](app.state.force_stop <=> app.state.drawing_state = DrawingState.PAUSED)
    /\ [](~app.state.tracking_active =>
              app.state.drawing_state = DrawingState.PAUSED)
    /\ [][(\E i \in 1..Len(app'.log) :
               /\ app'.log[i][2] = DrawingState.PAUSED
               /\ app'.log[i][3] \in { "fist gesture", "two-hand fist pause",
                                       "depth threshold exceeded" })
            => app'.state.tracking_active]_vars

\* A frame of the program that a fist has paused, which has read the hand.
C39_Witness ==
    /\ app.state.drawing_state = DrawingState.PAUSED /\ app.state.force_stop
    /\ app.state.tracking_active /\ app.state.last_state_reason = "fist gesture"
    /\ app.pre = DrawingState.PAUSED /\ app.last.hands /= <<>>

\* --- SpecImport: the frame loop with free-draw strokes and image imports

\* A run of SpecImport is followed for MaxImportFrames frames.
MaxImportFrames == 4

\* The fingertip on the toolbar's import button.
TipImport == <<800, 30>>

\* What a session of drawing and importing brings.
ImportInputs ==
    { Input(<<>>, <<>>, ""),
      Input(<<>>, <<Hand(1, TipA, 0)>>, ""),
      Input(<<>>, <<Hand(1, TipB, 0)>>, ""),
      Input(<<>>, <<Hand(1, TipImport, 0)>>, ""),
      Input(<<>>, <<Hand(1, TipA, 0)>>, "i"),
      Input(<<>>, <<Hand(1, TipA, 0)>>, "u"),
      Input(Say("CLEAR"), <<>>, "") }

\* The files the user may pick: the images of the draw calls, and one taller
\* than the display.
ImportImages ==
    Images \cup
    { [iw |-> 2, ih |-> CanvasH + 2, ch |-> 4,
       px |-> [q \in (0..1) \X (0..(CanvasH + 1)) |-> 1]] }

ImportInputsOf(w) == IF ~w.onboarding_done THEN OnboardingInputs ELSE ImportInputs

ImportFrame ==
    /\ app.frames < MaxImportFrames
    /\ \E f \in ImportInputsOf(app) : Frame(f)

\* A picker thread takes a step.
Picker ==
    /\ \E i \in 1..Len(app.pickers), choice \in {None} \cup { <<img>> : img \in ImportImages } :
          app' = _pick(app, i, choice)
    /\ UNCHANGED now /\ UNCHANGED notApp

NextImport == ImportFrame \/ Picker

SpecImport == Init /\ [][NextImport]_vars

\* C8: every push_undo() call is followed by one edit before the next
\* push_undo() call, and every edit (a stroke, a committed shape, a clear, an
\* image import) comes after a push_undo() call of its own.
C8_PushEditOneToOne == ~app.bad

\* C13: after a destructive edit of the canvas by the orchestrator (the
\* segment of a stroke, a committed shape, an image blit, a clear) with no
\* undo or redo call after it, the redo stack is empty, so that redo()
\* returns false.
C13_EditEmptiesRedo ==
    \A i \in 1..Len(app.calls) :
        ( /\ app.calls[i][2] \in {"stroke", "segment", "draw_shape", "clear", "blit_image"}
          /\ \A j \in (i + 1)..Len(app.calls) : app.calls[j][2] \notin {"undo", "redo"} )
        => (app.canvas.redo = <<>> /\ ~redo_ok(app.canvas))

\* The frame has made call on the canvas.
Called(w, call) == \E i \in 1..Len(w.calls) : w.calls[i][2] = call

\* C24: a frame with no hands gets the empty gesture result (gesture NONE,
\* no fingertip, every flag false) and leaves the filters of the primary
\* hand reset; if it draws in free-draw mode it leaves no stroke active
\* (drawing_active false, prev_point null, the filters of the brush reset);
\* the frame that draws next in free-draw mode starts a stroke of its own,
\* whose first point is the fingertip of that frame as detected.
C24_NoHandsEndsStroke ==
    /\ (app.frames > 0 /\ app.last.hands = <<>>) =>
          /\ app.last.gr = GestureResultInit
          /\ ~app.gesture.kx.init /\ ~app.gesture.ky.init
          /\ app.last.mode = "free" =>
                /\ ~app.state.drawing_active /\ app.state.prev_point = None
                /\ ~app.brush.kx.init /\ ~app.brush.ky.init
    /\ (app.gap /\ app.last.mode = "free") =>
          /\ ~Called(app, "segment")
          /\ Called(app, "stroke") =>
                /\ Called(app, "push_undo")
                /\ app.state.prev_point = Fingertip(app.last.gr)

\* A second stroke, begun at another place right after a frame with no
\* hands that ended the first.
C24_Witness ==
    /\ app.gap /\ app.last.mode = "free" /\ Called(app, "stroke")
    /\ app.state.prev_point = TipB /\ Len(app.canvas.undo) = 2
    /\ app.canvas.undo[2] /= Blank

\* C10: every call on the canvas is made by the main loop thread.
C10_MainThreadOnly == \A i \in 1..Len(app.calls) : app.calls[i][1] = "main"


\* --- SpecCombo: the frame loop with two-hand combos held

\* A run of SpecCombo is followed for MaxComboFrames frames.
MaxComboFrames == 4

\* What a session with both hands brings: two open palms, two fists, the
\* drawing hand, no hand.
ComboInputs ==
    { Input(<<>>, <<>>, ""),
      Input(<<>>, <<Hand(1, TipA, 0)>>, ""),
      Input(<<>>, <<Hand(5, TipA, 0), Hand(5, TipB, 0)>>, ""),
      Input(<<>>, <<Hand(0, TipA, 0), Hand(0, TipB, 0)>>, "") }

ComboInputsOf(w) == IF ~w.onboarding_done THEN OnboardingInputs ELSE ComboInputs

ComboFrame ==
    /\ app.frames < MaxComboFrames
    /\ \E f \in ComboInputsOf(app) : Frame(f)

NextCombo == ComboFrame

SpecCombo == Init /\ [][NextCombo]_vars

\* C20: over frames in a row that show the same two-hand combo (two open
\* palms, or two fists) the loop acts on it (clears the canvas with an undo
\* snapshot, or pauses) in one frame at most.
C20_ComboActsOnce == app.combo.acts <= 1

\* --- SpecCommit: the frame loop through the ends of strokes and shapes

\* A run of SpecCommit is followed for MaxCommitFrames frames.
MaxCommitFrames == 7

\* What a frame brings: the voice picks the circle, or free drawing, while
\* one finger is up; one finger up, here or there; no hand; a fist.
CommitInputs ==
    { Input(SayShape("circle"), <<Hand(1, TipA, 0)>>, ""),
      Input(Say("FREE_DRAW"), <<Hand(1, TipA, 0)>>, ""),
      Input(<<>>, <<Hand(1, TipA, 0)>>, ""),
      Input(<<>>, <<Hand(1, TipB, 0)>>, ""),
      Input(<<>>, <<>>, ""),
      Input(<<>>, <<Hand(0, TipA, 0)>>, "") }

CommitInputsOf(w) ==
    IF ~w.onboarding_done THEN OnboardingInputs
    ELSE IF w.state.drawing_state = DrawingState.PAUSED THEN PausedInputs
    ELSE CommitInputs

CommitFrame ==
    /\ app.frames < MaxCommitFrames
    /\ \E f \in CommitInputsOf(app) : Frame(f)

NextCommit == CommitFrame

SpecCommit == Init /\ [][NextCommit]_vars

\* C34: COMMITTED is transient. Every transition into COMMITTED that a frame
\* makes (the end of a stroke, the commit of a shape, the tick of the state
\* machine) is followed at once, by the statement after it in the same
\* handler, by the transition from COMMITTED to IDLE, so that no frame ends
\* with drawing_state COMMITTED.
C34_CommittedIsTransient ==
    /\ app.state.drawing_state /= DrawingState.COMMITTED
    /\ \A i \in 1..Len(app.log) :
          app.log[i][2] = DrawingState.COMMITTED =>
              /\ i < Len(app.log)
              /\ app.log[i + 1][1] = DrawingState.COMMITTED
              /\ app.log[i + 1][2] = DrawingState.IDLE
              /\ app.log[i + 1][3] =
                     CASE app.log[i][3] = "free-draw ended" -> "awaiting re-arm"
                       [] app.log[i][3] = "stroke frozen" -> "stroke end"
                       [] OTHER -> "shape finalization reset"

\* A frame that committed a shape.
C34_Witness ==
    \E i \in 1..Len(app.log) :
        /\ app.log[i][2] = DrawingState.COMMITTED
        /\ app.log[i][3] /= "free-draw ended"
        /\ \E j \in 1..Len(app.calls) : app.calls[j][2] = "draw_shape"

\* A frame that ended a free-draw stroke.
StrokeEnded == \E i \in 1..Len(app.log) : app.log[i][3] = "free-draw ended"

\* --- SpecColour: the frame loop through picks of the colour

\* A run of SpecColour is followed for MaxColourFrames frames.
MaxColourFrames == 5

\* The fingertip on the toolbar's yellow swatch, and on its eraser button.
TipYellow == <<140, 30>>
TipEraser == <<660, 30>>

SayColor(action) == << [ type |-> "SET_COLOR", payload |-> [ action |-> action ] ] >>

\* What a frame brings: the voice picks red, with no hand or one finger up;
\* no hand; one finger up, on the canvas, on the yellow swatch or on the
\* eraser button; three fingers up.
ColourInputs ==
    { Input(SayColor("color_red"), <<>>, ""),
      Input(SayColor("color_red"), <<Hand(1, TipA, 0)>>, ""),
      Input(<<>>, <<>>, ""),
      Input(<<>>, <<Hand(1, TipA, 0)>>, ""),
      Input(<<>>, <<Hand(1, TipYellow, 0)>>, ""),
      Input(<<>>, <<Hand(1, TipEraser, 0)>>, ""),
      Input(<<>>, <<Hand(3, TipA, 0)>>, "") }

ColourInputsOf(w) == IF ~w.onboarding_done THEN OnboardingInputs ELSE ColourInputs

ColourFrame ==
    /\ app.frames < MaxColourFrames
    /\ \E f \in ColourInputsOf(app) : Frame(f)

NextColour == ColourFrame

SpecColour == Init /\ [][NextColour]_vars

\* C36: once the toolbar or a voice SET_COLOR command has picked a colour,
\* the active draw colour is the picked colour at the end of every later
\* frame, until another colour is picked, the eraser is picked, or a gesture
\* with a colour of its own (TWO, THREE, FOUR, OPEN_PALM) is stable.
C36_PickedColourStays ==
    (app.sel /= None /\ app.frames > app.sel[2]) =>
        app.state.active_color = app.sel[1]

\* --- SpecMode: the frame loop through changes of the drawing mode

\* A run of SpecMode is followed for MaxModeFrames frames.
MaxModeFrames == 7

\* The fingertip on the toolbar's free-draw button.
TipFree == <<360, 30>>

\* What a frame brings: the voice picks the circle while one finger is up;
\* one finger up, here, there or on the free-draw button; no hand; the voice
\* picks free drawing while no hand is seen.
ModeInputs ==
    { Input(SayShape("circle"), <<Hand(1, TipA, 0)>>, ""),
      Input(<<>>, <<Hand(1, TipA, 0)>>, ""),
      Input(<<>>, <<Hand(1, TipB, 0)>>, ""),
      Input(<<>>, <<Hand(1, TipFree, 0)>>, ""),
      Input(<<>>, <<>>, ""),
      Input(Say("FREE_DRAW"), <<>>, "") }

ModeInputsOf(w) == IF ~w.onboarding_done THEN OnboardingInputs ELSE ModeInputs

ModeFrame ==
    /\ app.frames < MaxModeFrames
    /\ \E f \in ModeInputsOf(app) : Frame(f)

NextMode == ModeFrame

SpecMode == Init /\ [][NextMode]_vars

\* C37: at the end of every frame drawing_state is SHAPE_PREVIEW only if
\* shape mode is on and the shape engine has a preview; a switch from shape
\* mode to free drawing during a drag, by toolbar or by voice, leaves no
\* SHAPE_PREVIEW behind.
C37_PreviewOnlyInShapeMode ==
    app.state.drawing_state = DrawingState.SHAPE_PREVIEW =>
        app.state.shape_mode /\ has_preview(app.shapes)

\* The same for the switch by the toolbar alone.
ToolbarLeavesNoPreview ==
    (app.state.drawing_state = DrawingState.SHAPE_PREVIEW
        /\ app.state.active_action = "freedraw") => app.state.shape_mode

\* --- SpecSwipe: the frame loop through swipes

\* A run of SpecSwipe is followed for MaxSwipeFrames frames, SwipePeriod
\* apart while a hand is seen; a frame without a hand comes SwipePause after
\* the frame before it.
MaxSwipeFrames == 9
SwipePeriod == 70
SwipePause == 350

TipL == <<200, 300>>
TipR == <<500, 300>>

\* What a session of swipes brings: the hand with two fingers up on the left
\* and on the right, the key that toggles slide mode, no hand.
SwipeInputs ==
    { Input(<<>>, <<Hand(2, TipL, 0)>>, ""),
      Input(<<>>, <<Hand(2, TipR, 0)>>, ""),
      Input(<<>>, <<Hand(2, TipR, 0)>>, "p"),
      Input(<<>>, <<>>, "") }

SwipeInputsOf(w) == IF ~w.onboarding_done THEN OnboardingInputs ELSE SwipeInputs

SwipeFrame ==
    /\ app.frames < MaxSwipeFrames
    /\ \E f \in SwipeInputsOf(app) :
          FrameAfter(f, IF f.hands = <<>> THEN SwipePause ELSE SwipePeriod)

NextSwipe == SwipeFrame

SpecSwipe == Init /\ [][NextSwipe]_vars

\* The frame made call on the canvas.
CanvasCalled(call) == \E i \in 1..Len(app.calls) : app.calls[i][2] = call

\* C32: a frame sets no swipe flag sooner than SWIPE_COOLDOWN after the last
\* frame that set one; in every frame undo is slide_prev and redo is
\* slide_next, undo comes with a move to the left over the swipe window and
\* redo with a move to the right, never both; the loop calls undo() or
\* redo() for a swipe only outside slide mode and next() or prev() only in
\* slide mode, never both in one frame.
C32_SwipeCooldownAndConsumers ==
    LET gr == app.last.gr
        h  == app.gesture.swipe_history
    IN  /\ (app.swipe.fired /\ app.swipe.prev /= None) =>
              app.swipe.t - app.swipe.prev[1] >= SWIPE_COOLDOWN
        /\ gr.undo = gr.slide_prev /\ gr.redo = gr.slide_next
        /\ ~(gr.undo /\ gr.redo)
        /\ gr.undo => h[Len(h)][2] < h[1][2]
        /\ gr.redo => h[Len(h)][2] > h[1][2]
        /\ CanvasCalled("undo") => gr.undo /\ ~app.last.slide
        /\ CanvasCalled("redo") => gr.redo /\ ~app.last.slide
        /\ app.slides.calls /= <<>> =>
              /\ app.last.slide /\ ~CanvasCalled("undo") /\ ~CanvasCalled("redo")
              /\ app.slides.calls = IF gr.slide_next THEN <<"next">> ELSE <<"prev">>

\* A swipe to the left in slide mode, SWIPE_COOLDOWN or more after a swipe
\* outside slide mode: the frame calls prev() and makes no call on the canvas
\* but blend().
C32_Witness ==
    /\ app.swipe.fired /\ app.swipe.prev /= None
    /\ app.last.gr.slide_prev /\ app.last.slide
    /\ app.slides.calls = <<"prev">> /\ ~CanvasCalled("undo")

\* --- SpecGated: the frame loop through the gestures of a paused program

\* A run of SpecGated is followed for MaxGatedFrames frames: SetupFrames
\* frames at most before the pause, FramePeriod apart; the frames of the
\* paused program come GatedPeriod after the frame before them, or PalmWait
\* where they show one open palm.
MaxGatedFrames == 8
SetupFrames == 2
GatedPeriod == 70
PalmWait == 900

\* A hand with one finger up whose thumb is pd away from the index tip.
Pinching(pd) == [Hand(1, TipA, 0) EXCEPT !.pd = pd]

\* What a frame brings before the pause: one finger up, with the voice
\* picking the circle or the key that toggles slide mode or neither.
SetupInputs ==
    { Input(<<>>, <<Hand(1, TipA, 0)>>, ""),
      Input(SayShape("circle"), <<Hand(1, TipA, 0)>>, ""),
      Input(<<>>, <<Hand(1, TipA, 0)>>, "p") }

\* Two fists, which pause the program.
TwoFists == Input(<<>>, <<Hand(0, TipA, 0), Hand(0, TipB, 0)>>, "")

\* What a frame brings to the paused program: no voice, no key, no finger on
\* the toolbar, and the hand with two fingers up on the left or on the right,
\* an open palm, two open palms, a pinch closing or opening, one finger up, or
\* no hand.
GatedInputs ==
    { Input(<<>>, <<Hand(2, TipL, 0)>>, ""),
      Input(<<>>, <<Hand(2, TipR, 0)>>, ""),
      Input(<<>>, <<Hand(5, TipA, 0)>>, ""),
      Input(<<>>, <<Hand(5, TipA, 0), Hand(5, TipB, 0)>>, ""),
      Input(<<>>, <<Pinching(40)>>, ""),
      Input(<<>>, <<Pinching(60)>>, ""),
      Input(<<>>, <<Hand(1, TipA, 0)>>, ""),
      Input(<<>>, <<>>, "") }

GatedInputsOf(w) ==
    IF ~w.onboarding_done THEN OnboardingInputs
    ELSE IF w.state.drawing_state = DrawingState.PAUSED THEN GatedInputs
    ELSE IF w.frames < SetupFrames THEN SetupInputs \cup {TwoFists}
    ELSE {TwoFists}

GatedFrame ==
    /\ app.frames < MaxGatedFrames
    /\ \E f \in GatedInputsOf(app) :
          FrameAfter(f, IF app.state.drawing_state /= DrawingState.PAUSED
                        THEN FramePeriod
                        ELSE IF Len(f.hands) = 1 /\ f.hands[1].n = 5 THEN PalmWait
                        ELSE GatedPeriod)

NextGated == GatedFrame

SpecGated == Init /\ [][NextGated]_vars

\* What the gestures of a frame ask for.
GestureAsks(gr) ==
    \/ gr.undo \/ gr.redo \/ gr.clear \/ gr.two_hand_clear
    \/ gr.gesture = PINCH /\ gr.pinch_delta /= 0
    \/ gr.gesture = DRAWING

\* C38: a frame of the paused program that brings gestures alone (no voice
\* command, no key, no finger on the toolbar) changes neither the canvas
\* (raster, undo stack, redo stack), nor the brush thickness, nor the active
\* colour, nor the slide deck, nor the state, anchor and current point of the
\* shape engine, and makes no call on the canvas but the blend of the frame,
\* whatever its gestures ask for: swipe, palm hold, two palms, pinch, a
\* drawing finger in free-draw or shape mode, the release of a pinch.
C38_PausedGesturesChangeNothing ==
    [][app.state.drawing_state = DrawingState.PAUSED =>
          /\ app'.canvas = app.canvas
          /\ \A i \in 1..Len(app'.calls) : app'.calls[i][2] = "blend"
          /\ app'.state.thickness = app.state.thickness
          /\ app'.brush.thickness = app.brush.thickness
          /\ app'.state.active_color = app.state.active_color
          /\ app'.slides = [app.slides EXCEPT !.calls = <<>>]
          /\ app'.shapes.state = app.shapes.state
          /\ app'.shapes.anchor = app.shapes.anchor
          /\ app'.shapes.current = app.shapes.current
          /\ app'.state.drawing_state = DrawingState.PAUSED]_vars

\* A paused frame whose swipe asked for an undo, on a canvas with a stroke to
\* undo.
C38_Witness ==
    /\ app.pre = DrawingState.PAUSED
    /\ app.last.gr.undo /\ app.canvas.undo /= <<>>
    /\ app.calls = << <<"main", "blend">> >>

\* --- SpecTwoHands: update() on hand lists of every length

\* The update(hands) call at time t on the engine's state gs, recorded; was
\* is the hand list of the call before it.
EngineUpdate(hands, t) ==
    LET g == gesture_update(gs, hands, t)
    IN  /\ gs' = g.st
        /\ upd' = [ n |-> upd.n + 1, t |-> t, hands |-> hands, r |-> g.r, pre |-> gs,
                    was |-> upd.hands ]

\* The hands: an open palm, a fist, a pointing hand, and a hand with all
\* fingers up and one with none up whose thumb tip is on the index tip.
HandKinds ==
    { [ n |-> 5, pd |-> 200, tip |-> TipA, z |-> 0 ],
      [ n |-> 0, pd |-> 200, tip |-> TipA, z |-> 0 ],
      [ n |-> 1, pd |-> 200, tip |-> TipA, z |-> 0 ],
      [ n |-> 5, pd |-> 10, tip |-> TipA, z |-> 0 ],
      [ n |-> 0, pd |-> 10, tip |-> TipA, z |-> 0 ] }

\* The lists of up to MaxHands hands.
MaxHands == 3
HandLists == UNION { [1..k -> HandKinds] : k \in 0..MaxHands }

\* A run of SpecTwoHands makes MaxUpdates calls, TwoHandsPeriod apart.
MaxUpdates == 2
TwoHandsPeriod == 40

TwoHandsUpdate ==
    /\ upd.n < MaxUpdates
    /\ now' = now + TwoHandsPeriod
    /\ \E hands \in HandLists : EngineUpdate(hands, now')
    /\ UNCHANGED notUpdate

NextTwoHands == TwoHandsUpdate

SpecTwoHands == Init /\ [][NextTwoHands]_vars

\* Hand h shows an open palm, a fist: what _classify makes of it at once.
RawPalm(h) == h.pd >= PINCH_THRESHOLD /\ h.n = 5
RawFist(h) == h.pd >= PINCH_THRESHOLD /\ h.n = 0

\* C33: in every frame two_hand_clear is set exactly when the list has two
\* hands and both classify as OPEN_PALM, two_hand_pause exactly when it has
\* two hands and both classify as FIST, whatever the stable gesture is; with
\* no hand or one hand both are clear, and never are both set.
C33_TwoHandFlags ==
    LET hs == upd.hands
    IN  /\ upd.r.two_hand_clear <=>
              (Len(hs) = 2 /\ RawPalm(hs[1]) /\ RawPalm(hs[2]))
        /\ upd.r.two_hand_pause <=>
              (Len(hs) = 2 /\ RawFist(hs[1]) /\ RawFist(hs[2]))
        /\ Len(hs) < 2 => ~upd.r.two_hand_clear /\ ~upd.r.two_hand_pause
        /\ ~(upd.r.two_hand_clear /\ upd.r.two_hand_pause)

\* Two fists in the first frame that shows them: two_hand_pause is set while
\* the stable gesture is not FIST.
C33_Witness ==
    /\ upd.n = 2 /\ Len(upd.hands) = 2 /\ upd.r.two_hand_pause
    /\ ~upd.r.two_hand_clear /\ upd.r.gesture /= FIST /\ Len(upd.pre.swipe_history) = 1

\* --- SpecAbsent: update() on a hand that comes and goes

\* A run of SpecAbsent makes MaxAbsentUpdates calls; a call that sees a hand
\* comes AbsentPeriod after the call before it, a call that sees none
\* AbsentGap.
MaxAbsentUpdates == 5
AbsentPeriod == 60
AbsentGap == 900

\* What update() is given: no hand; an open palm, two fingers up, one finger
\* up, a pinch.
AbsentLists ==
    { <<>>,
      << [ n |-> 5, pd |-> 200, tip |-> TipA, z |-> 0 ] >>,
      << [ n |-> 2, pd |-> 200, tip |-> TipA, z |-> 0 ] >>,
      << [ n |-> 1, pd |-> 200, tip |-> TipB, z |-> 0 ] >>,
      << [ n |-> 1, pd |-> 40, tip |-> TipA, z |-> 0 ] >> }

AbsentUpdate ==
    /\ upd.n < MaxAbsentUpdates
    /\ \E hands \in AbsentLists :
          /\ now' = now + (IF hands = <<>> THEN AbsentGap ELSE AbsentPeriod)
          /\ EngineUpdate(hands, now')
    /\ UNCHANGED notUpdate

NextAbsent == AbsentUpdate

SpecAbsent == Init /\ [][NextAbsent]_vars

\* The call just made saw a hand and the call before it saw none.
HandReturned == upd.n > 1 /\ upd.hands /= <<>> /\ upd.was = <<>>

ReturnedToPending ==
    HandReturned /\ upd.r.gesture /= upd.pre.stable_gesture

\* --- SpecBrush: a caller of set_thickness and adjust

\* The arguments: far below and far above the range, around its ends, around
\* zero, inside.
ThicknessArgs == {-1000, -51, -7, -1, 0, 1, 2, 7, 49, 50, 51, 1000}

BrushSetThickness ==
    /\ \E v \in ThicknessArgs :
          br' = [ b |-> set_thickness(br.b, v), call |-> <<"set_thickness", v>>,
                  pre |-> br.b.thickness, n |-> br.n, was |-> br.b ]
    /\ UNCHANGED notBrush

BrushAdjust ==
    /\ \E delta \in ThicknessArgs :
          br' = [ b |-> adjust(br.b, delta), call |-> <<"adjust", delta>>,
                  pre |-> br.b.thickness, n |-> br.n, was |-> br.b ]
    /\ UNCHANGED notBrush

NextBrush == BrushSetThickness \/ BrushAdjust

SpecBrush == Init /\ [][NextBrush]_vars

\* v, or the end of [MIN_THICKNESS, MAX_THICKNESS] nearest to it.
ClampedThickness(v) ==
    IF v < MIN_THICKNESS THEN MIN_THICKNESS
    ELSE IF v > MAX_THICKNESS THEN MAX_THICKNESS ELSE v

\* C25: after every set_thickness(v) and adjust(delta) call the thickness
\* lies in [MIN_THICKNESS, MAX_THICKNESS]; it is v, or the thickness before
\* the call plus delta, clamped into that range.
C25_ThicknessClamped ==
    /\ br.b.thickness >= MIN_THICKNESS /\ br.b.thickness <= MAX_THICKNESS
    /\ (br.call /= None /\ br.call[1] = "set_thickness") =>
          br.b.thickness = ClampedThickness(br.call[2])
    /\ (br.call /= None /\ br.call[1] = "adjust") =>
          br.b.thickness = ClampedThickness(br.pre + br.call[2])

\* An adjust below the range from inside it.
C25_Witness ==
    /\ br.call /= None /\ br.call[1] = "adjust"
    /\ br.pre > MIN_THICKNESS /\ br.pre < MAX_THICKNESS
    /\ br.pre + br.call[2] < MIN_THICKNESS /\ br.b.thickness = MIN_THICKNESS

\* --- SpecSmooth: a caller of smooth and reset

\* The caller makes up to MaxSmooth calls; br.was is the brush before the
\* last one.
MaxSmooth == 4
SmoothPts == { <<1, 1>>, <<7, 3>>, <<640, 360>> }

BrushSmooth ==
    /\ br.n < MaxSmooth
    /\ \E pt \in SmoothPts \cup {None} :
          br' = [br EXCEPT !.b = smooth(br.b, pt), !.call = <<"smooth", pt>>,
                           !.n = br.n + 1, !.was = br.b]
    /\ UNCHANGED notBrush

BrushReset ==
    /\ br.n < MaxSmooth
    /\ br' = [br EXCEPT !.b = reset(br.b), !.call = <<"reset">>,
                        !.n = br.n + 1, !.was = br.b]
    /\ UNCHANGED notBrush

NextSmooth == BrushSmooth \/ BrushReset

SpecSmooth == Init /\ [][NextSmooth]_vars

\* Filter f has taken z as its estimate.
Took(f, z) == f.init /\ f.x = z * 100 /\ kalman_int(f) = z

\* C29: the first update(z) of a new KalmanPoint and the first after a
\* reset() returns z and takes z as the estimate; smooth(None) resets the
\* filters of both axes, so the smooth(pt) after it returns pt.
C29_FirstUpdateIsExact ==
    /\ (br.call /= None /\ br.call[1] = "smooth" /\ br.call[2] /= None) =>
          /\ ~br.was.kx.init => Took(br.b.kx, br.call[2][1])
          /\ ~br.was.ky.init => Took(br.b.ky, br.call[2][2])
    /\ (br.call = <<"smooth", None>> \/ br.call = <<"reset">>) =>
          /\ ~br.b.kx.init /\ ~br.b.ky.init
          /\ \A pt \in SmoothPts : smooth_ret(smooth(br.b, pt)) = pt

\* The first point after a smooth(None) that followed two points of another
\* stroke: the estimates before the call were elsewhere.
C29_Witness ==
    /\ br.call /= None /\ br.call[1] = "smooth" /\ br.call[2] /= None
    /\ ~br.was.kx.init /\ ~br.was.ky.init
    /\ br.was.kx.x \notin {0, br.call[2][1] * 100}
    /\ br.was.kx.p /= KalmanInit.p
    /\ smooth_ret(br.b) = br.call[2]

\* --- SpecState: a caller of AppState.set_drawing_state, and the clock

\* The new_state arguments: the six states, and names that are none of them.
StateArgs == DrawingStateALL \cup {"RUNNING", "paused", ""}
StateReasons == {"", "voice stop", "stroke active"}

SetDrawingState ==
    /\ now < MaxTime
    /\ \E dt \in TimeSteps, new_state \in StateArgs, reason \in StateReasons :
          /\ now' = now + dt
          /\ LET r == AppState_set_drawing_state(ast.s, new_state, reason, now')
             IN  ast' = [ s |-> r.s, pre |-> ast.s, arg |-> <<new_state>>,
                          ret |-> r.ret, raised |-> r.raised ]
    /\ UNCHANGED notState

NextState == SetDrawingState

SpecState == Init /\ [][NextState]_vars

\* C12: set_drawing_state with a new_state outside DrawingState.ALL raises
\* and leaves drawing_state, last_state_reason and last_state_ts as they
\* were; with a valid new_state it does not raise, it returns true exactly
\* when new_state is not the current state, and a call with the current
\* state changes none of the three fields.
C12_SetDrawingStateChecks ==
    ast.arg /= None =>
        /\ ast.arg[1] \notin DrawingStateALL => ast.raised /\ ast.s = ast.pre
        /\ ast.arg[1] \in DrawingStateALL =>
              /\ ~ast.raised
              /\ ast.ret <=> ast.arg[1] /= ast.pre.drawing_state
              /\ ast.arg[1] = ast.pre.drawing_state => ast.s = ast.pre

\* A call with an undefined state on an AppState that earlier calls have
\* paused.
C12_Witness ==
    /\ ast.arg /= None /\ ast.arg[1] = "RUNNING" /\ ast.raised
    /\ ast.s.drawing_state = DrawingState.PAUSED
    /\ ast.s.last_state_reason = "voice stop" /\ ast.s.last_state_ts > StartTime

\* --- SpecDetect: the main thread's calls and the worker, step by step

Start0 ==
    /\ ~det.started /\ det.mpc = 0
    /\ det' = start(det)
    /\ UNCHANGED notDetection

PutFrame ==
    /\ det.started /\ det.mpc \in {0, 43, 44, 45} /\ ~MainWaits(det)
    /\ \E f \in Frames : det' = put_frame(det, f)
    /\ UNCHANGED notDetection

GetResult ==
    /\ det.started /\ det.mpc \in {0, 48, 49} /\ ~MainWaits(det)
    /\ det' = get_result(det)
    /\ UNCHANGED notDetection

Stop ==
    /\ det.started /\ det.mpc \in {0, 38, 39, 40}
    /\ det.mpc = 0 => det.running
    /\ det' = stop(det)
    /\ UNCHANGED notDetection

\* What detect_fn makes of frame f: it raises, or it returns no hand or the
\* hands of the frame.
DetectOutcomes(f) ==
    { [raises |-> TRUE, hands |-> <<>>],
      [raises |-> FALSE, hands |-> <<>>],
      [raises |-> FALSE, hands |-> <<f>>] }

Worker ==
    /\ det.wpc /= 0 /\ ~WorkerWaits(det)
    /\ \E r \in DetectOutcomes(det.wframe) : det' = _loop(det, r)
    /\ UNCHANGED notDetection

NextDetect == Start0 \/ PutFrame \/ GetResult \/ Stop \/ Worker

SpecDetect == Init /\ [][NextDetect]_vars

\* C9: while detect_fn runs (the worker is at line 62) the worker holds
\* neither the frame-mailbox lock nor the result-mailbox lock, so no step of
\* put_frame() or get_result() waits for it.
C9_DetectHoldsNoLock ==
    det.wpc = 62 =>
        /\ det.fl /= <<"worker">> /\ det.rl /= <<"worker">>
        /\ ~MainWaits(det)

C9_Witness ==
    /\ det.wpc = 62 /\ det.during = 2 /\ det.mpc = 0
    /\ det.frame /= <<det.wframe[1]>> /\ det.fl = None /\ det.rl = None

\* C11: when detect_fn raises for a frame, the worker takes the empty hand
\* list as the result of that frame and stores it, it does not end (the
\* worker ends only once stop() has cleared _running), and get_result() gives
\* the main thread a list of hands, never the exception.
C11_DetectErrorIsNoHands ==
    /\ det.exc => det.wresult = <<>> /\ det.wpc \in {65, 66}
    /\ det.res_exc => det.result = <<>>
    /\ (det.started /\ det.wpc = 0) => ~det.running
    /\ det.got \in {<<>>} \cup { << <<f>> >> : f \in Frames }

\* A call has raised, its empty result has been stored, and the main thread
\* has read the hands of a frame the worker processed after it.
C11_Witness ==
    /\ det.excs /\ ~det.exc /\ det.running
    /\ det.result /= <<>> /\ det.got = det.result

\* --- LiveDetect: SpecDetect with the threads scheduled

\* A step of the call the main thread is in.
MainStep == det.mpc /= 0 /\ (PutFrame \/ GetResult \/ Stop)

\* Both threads are scheduled: the main thread ends a call it is in, and the
\* worker takes its next step, detect_fn returning or raising and a lock
\* that is free again and again being acquired.
LiveDetect == SpecDetect /\ WF_vars(MainStep) /\ SF_vars(Worker)

\* C28: once stop() has cleared _running on a started thread the worker
\* eventually leaves its loop; a read of _running that finds it cleared (line
\* 52 or 55) ends the worker, which starts no detection afterwards; and
\* stop() returns, the worker ended or not.
C28_StopEndsWorker ==
    /\ (det.started /\ ~det.running) ~> (det.wpc = 0)
    /\ (det.mpc \in {38, 39, 40}) ~> (det.mpc = 0)
    /\ [][(det.wpc \in {52, 55} /\ ~det.running /\ det'.wpc /= det.wpc)
            => det'.wpc = 0]_vars
    /\ [][(det.started /\ det.wpc = 0) => det'.wpc = 0]_vars

\* stop() has returned while detect_fn runs on a frame.
C28_Witness ==
    /\ det.started /\ ~det.running /\ det.mpc = 0 /\ det.wpc = 62

\* --- SpecMailbox: put_frame, get_result and the worker, with an observer

\* A run of SpecMailbox submits MaxPuts frames at most.
MaxPuts == 3

\* What the observer notes at a step of the main thread that leaves d.
MainSeen(m, d, d2) ==
    CASE d.mpc = 0 /\ d2.mpc = 43 -> [m EXCEPT !.put = @ + 1]
      [] d.mpc = 44 -> [m EXCEPT !.frame = m.put]
      [] d.mpc = 49 -> [m EXCEPT !.got = m.res, !.reads = Min(2, @ + 1)]
      [] OTHER -> m

\* What the observer notes at a step of the worker that leaves d.
WorkerSeen(m, d) ==
    CASE d.wpc = 58 -> [m EXCEPT !.w = m.frame]
      [] d.wpc = 66 -> [m EXCEPT !.res = m.w, !.done = << d.wresult >>]
      [] OTHER -> m

MailboxStart ==
    /\ ~det.started /\ det.mpc = 0
    /\ det' = start(det)
    /\ UNCHANGED << mbx, notMailbox >>

MailboxPut ==
    /\ det.started /\ det.mpc \in {0, 43, 44, 45} /\ ~MainWaits(det)
    /\ det.mpc = 0 => mbx.put < MaxPuts
    /\ \E f \in Frames : det' = put_frame(det, f)
    /\ mbx' = MainSeen(mbx, det, det')
    /\ UNCHANGED notMailbox

MailboxGet ==
    /\ det.started /\ det.mpc \in {0, 48, 49} /\ ~MainWaits(det)
    /\ det' = get_result(det)
    /\ mbx' = MainSeen(mbx, det, det')
    /\ UNCHANGED notMailbox

MailboxWorker ==
    /\ det.wpc /= 0 /\ ~WorkerWaits(det)
    /\ \E r \in DetectOutcomes(det.wframe) : det' = _loop(det, r)
    /\ mbx' = WorkerSeen(mbx, det)
    /\ UNCHANGED notMailbox

\* A step of the call the main thread is in.
MailboxMainStep == det.mpc /= 0 /\ (MailboxPut \/ MailboxGet)

NextMailbox == MailboxStart \/ MailboxPut \/ MailboxGet \/ MailboxWorker

SpecMailbox == Init /\ [][NextMailbox]_vars

\* Both threads are scheduled, as in LiveDetect.
LiveMailbox == SpecMailbox /\ WF_vars(MailboxMainStep) /\ SF_vars(MailboxWorker)

\* C35: under every interleaving of put_frame, get_result and the worker's
\* loop, (1) once a put_frame call has stored its frame the mailbox holds
\* the frame of the last submission and nothing of the ones before it; (2)
\* get_result returns the empty list while no detection has stored its
\* result, and from then on the result of the detection that stored last;
\* (3) the results read, the stored results and the frames the worker takes
\* never go back to an earlier submission; (4) the frame of a submission is
\* eventually processed and its result stored, unless another submission
\* follows it.
C35_MailboxKeepsLatest ==
    /\ [](det.mpc \notin {43, 44} /\ det.arg /= None =>
              det.frame = det.arg /\ mbx.frame = mbx.put)
    /\ [][det.mpc = 49 /\ det'.mpc = 0 =>
              det'.got = IF mbx.done = None THEN << >> ELSE mbx.done[1]]_vars
    /\ [][/\ mbx'.got >= mbx.got /\ mbx'.res >= mbx.res /\ mbx'.w >= mbx.w
          /\ mbx'.frame >= mbx.frame]_vars
    /\ [](mbx.got <= mbx.res /\ mbx.res <= mbx.w /\ mbx.w <= mbx.frame
              /\ mbx.frame <= mbx.put)
    /\ \A k \in 1..MaxPuts :
           (mbx.frame = k) ~> (mbx.res = k \/ mbx.put > k)

\* Three frames were submitted, and the second read of the main thread has
\* returned the hands that the detection of the third gave.
C35_Witness ==
    /\ mbx.put = 3 /\ mbx.got = 3 /\ mbx.reads = 2 /\ det.mpc = 0
    /\ mbx.done /= None /\ det.got = mbx.done[1] /\ det.got /= << >>

\* C3: after any sequence of draw calls (draw_line without eraser, draw_dot,
\* draw_shape, blit_image) the cached dirty box holds every pixel of non-zero
\* alpha, and what blend() composites is the whole ink.
C3_BoxCoversInk ==
    /\ \A p \in Ink(cv.canvas) : cv.bbox /= None /\ InBox(p, cv.bbox)
    /\ blend_out(cv, TRUE) = Ink(cv.canvas)

====
